---- MODULE Spec2Model ----
(***************************************************************************)
(* State-machine model of the task scheduler of src/task-scheduler.mjs     *)
(* (class TaskScheduler) and of the driver notifications it receives from  *)
(* src/runbatch.mjs.                                                       *)
(*                                                                         *)
(* JavaScript runs one callback at a time: the code between two awaits is  *)
(* one atomic step.  Every async function is therefore a process whose     *)
(* program counter stands at an await; one action of the model is one      *)
(* such segment.  The processes are the periodic tick (schedule), the      *)
(* event pass (processPendingEvents), one initializeTask call per          *)
(* promotion, and the environment (the pages, the wall clock).             *)
(***************************************************************************)
EXTENDS Integers, Sequences, FiniteSets, TLC

(* ------------------------------ bounds --------------------------------- *)
\* number of tasks added to the task table before start()
NumTasks == 3
\* initializeTask calls that may be in flight for one task at the same time
MaxInitCalls == 2
\* cap of the failure counter stats.failed (initialisations that may fail)
MaxFailed == 4
\* hour boundaries the wall clock may cross
MaxHours == 1
\* soft resets that may be run
MaxSoftResets == 3
\* cap of the wall clock, in milliseconds
MaxNow == 90000
\* cap of startSessionClickCount (start clicks that may stay without effect)
MaxClicks == 6
\* cap of the submitted-solution counter
MaxSubmit == 3
\* cap of the warnings addTask logs for ids already present
MaxWarnings == 2
\* the wall clock advances in steps of this many milliseconds
TimeStep == 30000
\* pages of runOne that send requests
NumPages == 2
\* operations passed to globalRateLimiter.execute
MaxOps == 3
\* 429 responses counted by the global limiter
Max429 == 4

(* --------------------------- configuration ----------------------------- *)
\* CONFIG is read from the environment when the module is loaded; the model
\* keeps it in a variable that never changes, and a specification sets it up
\* in its initial state.  Configurations in use:
\* the smallest one in which the three limits differ from one another,
ConfigSmall ==
  [MAX_ACTIVE_MINING |-> 1, MAX_OPEN_PAGES |-> 2, PAGE_OPEN_CONCURRENCY |-> 1,
   RESET_AT_HOUR |-> TRUE]
\* one in which two pages can be opened, and clicked, side by side,
ConfigWide ==
  [MAX_ACTIVE_MINING |-> 1, MAX_OPEN_PAGES |-> 3, PAGE_OPEN_CONCURRENCY |-> 2,
   RESET_AT_HOUR |-> TRUE]
\* one whose ceilings never bind, so that no session is stopped or closed,
ConfigLoose ==
  [MAX_ACTIVE_MINING |-> NumTasks, MAX_OPEN_PAGES |-> NumTasks, PAGE_OPEN_CONCURRENCY |-> 1,
   RESET_AT_HOUR |-> TRUE]
\* and the small one in soft mode.
ConfigSoft == [ConfigSmall EXCEPT !.RESET_AT_HOUR = FALSE]

(* ------------------------- program constants --------------------------- *)
maxConsecutive429Errors == 3
pauseDuration == 60000
CrashRefreshLimit == 3
CrashRefreshSpacing == 3000
DefaultMinInterval == 5000
IntervalCap == 30000
RestoreWindow == 60000
maxConcurrent == 1
baseInterval == 1000
successThreshold == 10
RecoverAfter == 30000
maxWait == 60000

TaskIds == 1..NumTasks

\* a time stamp that is null
NoTime == 0 - 1

PENDING == "pending"
INITIALIZING == "initializing"
MINING == "mining"
COMPLETED == "completed"
WAITING_CLOSE == "waiting_close"
CLOSED == "closed"
ERROR == "error"
TaskStatus == {PENDING, INITIALIZING, MINING, COMPLETED, WAITING_CLOSE, CLOSED, ERROR}

\* what task.page refers to: nothing (null), an open page, or a page that
\* has been closed on the driver side while the reference is still held
PageRefs == {"none", "open", "stale"}
\* what the page of a task shows (the driver side): on the mining URL the
\* start button, 'finding a solution', 'waiting for the next challenge', a
\* stop button without any status text, or none of these; the wallet URL;
\* some other URL; a crashed renderer
PageViews == {"start", "mining", "waiting", "stoponly", "blank", "wallet", "other",
              "crashed"}

EventTypes == {"page-closed", "task-initialized", "task-status-changed",
               "task-completed", "task-mining-started", "task-error"}

Procs == {"ev", "tick", "stop"}

VARIABLES
  tasks,                  \* keys of this.tasks
  status, page, view,     \* task.status, task.page, the page's content
  timer,                  \* miningStartTime of the task's entry in stats.taskTimers
  miningCycle,            \* task.miningCycle: <<>> is null, <<c>> is cycle c
  hasSubmittedSolution,   \* task.hasSubmittedSolution
  crashRefreshCount, lastCrashRefreshTime,
  startSessionClickCount, lastStartSessionClickTime,
  inits,                  \* inits[t][k]: where the k-th initializeTask call of t stands
  isRunning, CONFIG,      \* this.isRunning, the configuration
  intervalId,             \* the interval timer of start() is armed
  sharedBrowser,          \* this.sharedBrowser: "none" (null) or "open"
  duplicateWarnings,      \* warnings logged by addTask for an id already present
  lastHealthCheckTime,    \* this.lastHealthCheckTime: <<>> is undefined, <<n>> is n
  cycle, cycleHour,       \* stats.cycle, hour of currentCycleStartTime (<<>> is null)
  hour, now,              \* the wall clock: hour of the day, milliseconds
  pendingEvents, isProcessingEvents, evBatch,
  loc,                    \* loc[p]: position and locals of process p
  consecutive429Errors, pauseUntil,
  failed, submitSolution, cycleSubmitSolution, totalCompleted,
  notify,                 \* notify[t]: a SolutionSubmitted(t) notification is on its way
  fresh,                  \* history: a hard reset has completed and no admission pass
                          \* has run since
  globalRateLimiter,      \* runbatch.mjs: the fields of globalRateLimiter
  queue,                  \* the callbacks chained to globalRateLimiter.queue, first to last
  settled,                \* settled[o]: the promise execute returned for operation o
  started,                \* history: the operations in the order in which they began
  challengeSubmissionRateLimiter,
  solution,               \* solution[p]: the POST /api/solution of page p
  challenge               \* challenge[p]: the GET /api/challenge of page p

attrVars == <<miningCycle, hasSubmittedSolution, crashRefreshCount, lastCrashRefreshTime,
              startSessionClickCount, lastStartSessionClickTime>>
taskVars == <<tasks, status, page, view, timer, attrVars>>
evVars == <<pendingEvents, isProcessingEvents, evBatch, loc>>
rateVars == <<consecutive429Errors, pauseUntil>>
statVars == <<failed, submitSolution, cycleSubmitSolution, totalCompleted>>
clockVars == <<hour, now>>
cycleVars == <<cycle, cycleHour>>
runVars == <<isRunning, intervalId, sharedBrowser, duplicateWarnings, lastHealthCheckTime>>
batchVars == <<globalRateLimiter, queue, settled, started, challengeSubmissionRateLimiter,
               solution, challenge>>
vars == <<taskVars, inits, runVars, CONFIG, batchVars, cycleVars, clockVars, evVars,
          rateVars, statVars, notify, fresh>>

MAX_ACTIVE_MINING == CONFIG.MAX_ACTIVE_MINING
MAX_OPEN_PAGES == CONFIG.MAX_OPEN_PAGES
PAGE_OPEN_CONCURRENCY == CONFIG.PAGE_OPEN_CONCURRENCY
RESET_AT_HOUR == CONFIG.RESET_AT_HOUR

(* ------------------------------ helpers -------------------------------- *)
Min2(a, b) == IF a <= b THEN a ELSE b
Min3(a, b, c) == Min2(a, Min2(b, c))

\* the elements of a set of task ids as a sequence in ascending order
\* (the order of the Map's keys, of the numeric id, and of createdAt)
RECURSIVE Ascending(_)
Ascending(S) ==
  IF S = {} THEN <<>>
  ELSE LET m == CHOOSE x \in S : \A y \in S : x <= y
       IN <<m>> \o Ascending(S \ {m})

RECURSIVE Reverse(_)
Reverse(s) == IF s = <<>> THEN <<>> ELSE Append(Reverse(Tail(s)), Head(s))

Range(s) == {s[i] : i \in 1..Len(s)}

\* the suffix of s from its first element that lies in S
RECURSIVE DropUntil(_, _)
DropUntil(s, S) ==
  IF s = <<>> THEN <<>>
  ELSE IF Head(s) \in S THEN s ELSE DropUntil(Tail(s), S)

NullLoc ==
  [pc |-> "idle", list |-> <<>>, cur |-> 0, acc |-> <<>>, snap |-> FALSE, had |-> FALSE,
   entry |-> {}, base |-> 0, depth |-> 0]

(* ----------------------- counts over the task table -------------------- *)
\* getOpenPagesCount over a status table st and a page table pg
OpenPagesOf(st, pg) ==
  Cardinality({t \in tasks : \/ st[t] = INITIALIZING
                             \/ /\ st[t] \in {MINING, COMPLETED, WAITING_CLOSE}
                                /\ pg[t] = "open"})
getOpenPagesCount == OpenPagesOf(status, page)

\* what getOpenPagesCount leaves of the page references pg: the reference of
\* a Mining, Completed or WaitingClose task to a page that is closed is set
\* to null. The steps that can be the first to read the count after a page
\* was closed apply it (the admission, initializeTask after a launch, the
\* head of the click loop in onTaskInitialized, the tick's first segment,
\* getStatus); once stop() has released the browser only callbacks in flight
\* remain, and none of them reads a reference it would clear.
clearClosedPages(st, pg) ==
  [t \in TaskIds |->
     IF st[t] \in {MINING, COMPLETED, WAITING_CLOSE} /\ pg[t] = "stale" THEN "none" ELSE pg[t]]

ActiveMiningOf(st, pg) == Cardinality({t \in tasks : st[t] = MINING /\ pg[t] = "open"})
getActiveMiningCount == ActiveMiningOf(status, page)

\* a count that sees no Initializing task
InitializingNone(st) == 0

InitializingOf(st) == Cardinality({t \in tasks : st[t] = INITIALIZING})

\* a scheduler that never pauses admission
neverPauseNewTasks == FALSE

shouldPauseNewTasks == pauseUntil # 0 /\ now < pauseUntil

(* ------------------------------ events --------------------------------- *)
\* Set.add keeps the insertion order and ignores an element already present
AddEv(pe, e) == IF e \in Range(pe) THEN pe ELSE Append(pe, e)

RECURSIVE AddAll(_, _)
AddAll(pe, es) == IF es = <<>> THEN pe ELSE AddAll(AddEv(pe, Head(es)), Tail(es))

\* What runs without giving way to another callback: the first handler of a
\* pass runs its synchronous prefix inside the segment that raised the event
\* ("sync"); the next handler of a pass ("next") and the code of schedule()
\* that follows an awaited call which ends in the same segment ("main",
\* "force1b", "force2b") run in the microtasks of that segment, and so does
\* the code between the status update loop and the enforcement ("health").
Sync == loc["ev"].pc = "sync"
Urgent == \/ loc["ev"].pc \in {"sync", "next"}
          \/ loc["tick"].pc \in {"main", "force1b", "force2b", "health"}

\* a trigger that takes no pass to be in progress
noPassInProgress == FALSE

\* the test of triggerEvent and of processPendingEvents that keeps a second
\* pass from starting: a pass holds the flag
passInProgress == isProcessingEvents

\* triggerEvent for the events es raised, in order, by a segment that leaves
\* the locals as l; depth counts the passes that are dispatching handlers
triggerEvent(l, es) ==
  IF ~isRunning \/ es = <<>>
  THEN /\ loc' = l
       /\ UNCHANGED <<pendingEvents, isProcessingEvents, evBatch>>
  ELSE IF passInProgress
  THEN /\ pendingEvents' = AddAll(pendingEvents, es)
       /\ loc' = l
       /\ UNCHANGED <<isProcessingEvents, evBatch>>
  ELSE /\ evBatch' = AddEv(pendingEvents, Head(es))
       /\ pendingEvents' = AddAll(<<>>, Tail(es))
       /\ isProcessingEvents' = TRUE
       /\ loc' = [l EXCEPT !["ev"] = [NullLoc EXCEPT !.pc = "sync",
                                                     !.depth = l["ev"].depth + 1]]

\* a pass whose finally block only gives the flag back
EvDoneOnce(l, es) ==
  LET pe == IF isRunning THEN AddAll(pendingEvents, es) ELSE pendingEvents
      rest == Tail(evBatch)
  IN IF rest # <<>>
     THEN /\ pendingEvents' = pe
          /\ evBatch' = rest
          /\ isProcessingEvents' = TRUE
          /\ loc' = [l EXCEPT !["ev"] = [NullLoc EXCEPT !.pc = "next",
                                                        !.depth = l["ev"].depth]]
     ELSE /\ pendingEvents' = pe
          /\ evBatch' = <<>>
          /\ isProcessingEvents' = FALSE
          /\ loc' = [l EXCEPT !["ev"] = NullLoc]

\* processPendingEvents when the handler of Head(evBatch) has returned, having
\* raised the events es: the next handler of the batch, or the finally block
EvDone(l, es) ==
  LET pe == IF isRunning THEN AddAll(pendingEvents, es) ELSE pendingEvents
      rest == Tail(evBatch)
  IN IF rest # <<>>
     THEN /\ pendingEvents' = pe
          /\ evBatch' = rest
          /\ isProcessingEvents' = TRUE
          /\ loc' = [l EXCEPT !["ev"] = [NullLoc EXCEPT !.pc = "next",
                                                        !.depth = l["ev"].depth]]
     ELSE IF pe # <<>>
     THEN /\ pendingEvents' = <<>>
          /\ evBatch' = pe
          /\ isProcessingEvents' = TRUE
          /\ loc' = [l EXCEPT !["ev"] = [NullLoc EXCEPT !.pc = "sync",
                                                        !.depth = l["ev"].depth]]
     ELSE /\ pendingEvents' = <<>>
          /\ evBatch' = <<>>
          /\ isProcessingEvents' = FALSE
          /\ loc' = [l EXCEPT !["ev"] = NullLoc]

\* the pass is about to call the handler of event e
AtHandler(e) ==
  /\ loc["ev"].pc \in {"sync", "next"}
  /\ evBatch # <<>>
  /\ Head(evBatch) = e

(* ----------------------------- admission ------------------------------- *)
\* a promotion loop that stops after its first task
PromoteFirst(st, pend, n) ==
  IF n = 0 \/ pend = <<>> \/ st[Head(pend)] # PENDING THEN [st |-> st, started |-> {}]
  ELSE [st |-> [st EXCEPT ![Head(pend)] = INITIALIZING], started |-> {Head(pend)}]

\* the promotion loop of tryStartNewTaskAfterClose over the sorted pending
\* tasks pend, n promotions left: each task is set Initializing, the counts
\* are read again, and the task is put back and the loop left when a limit
\* is exceeded
RECURSIVE PromoteLoop(_, _, _)
PromoteLoop(st, pend, n) ==
  IF n = 0 \/ pend = <<>> THEN [st |-> st, started |-> {}]
  ELSE LET t == Head(pend)
           st1 == [st EXCEPT ![t] = INITIALIZING]
       IN IF st[t] # PENDING THEN PromoteLoop(st, Tail(pend), n - 1)
          ELSE IF OpenPagesOf(st1, page) > MAX_OPEN_PAGES THEN [st |-> st, started |-> {}]
          ELSE IF InitializingOf(st1) > PAGE_OPEN_CONCURRENCY THEN [st |-> st, started |-> {}]
          ELSE LET r == PromoteLoop(st1, Tail(pend), n - 1)
               IN [st |-> r.st, started |-> r.started \cup {t}]

\* an admission pass that takes the pending tasks from the largest id down
AdmissionDescending ==
  LET currentOpenPages == getOpenPagesCount
      pendingTasks == Reverse(Ascending({t \in tasks : status[t] = PENDING}))
      initializingCount == InitializingOf(status)
      availablePageSlots == MAX_OPEN_PAGES - currentOpenPages
      canOpenMore == /\ currentOpenPages < MAX_OPEN_PAGES
                     /\ initializingCount < PAGE_OPEN_CONCURRENCY
                     /\ availablePageSlots > 0
                     /\ Len(pendingTasks) > 0
      toStart == Min3(PAGE_OPEN_CONCURRENCY - initializingCount, availablePageSlots,
                      Len(pendingTasks))
  IN IF shouldPauseNewTasks \/ ~canOpenMore THEN [st |-> status, started |-> {}]
     ELSE PromoteLoop(status, pendingTasks, toStart)

\* the result of one admission pass in the current state
Admission ==
  LET currentOpenPages == getOpenPagesCount
      pendingTasks == Ascending({t \in tasks : status[t] = PENDING})
      initializingCount == InitializingOf(status)
      availablePageSlots == MAX_OPEN_PAGES - currentOpenPages
      canOpenMore == /\ currentOpenPages < MAX_OPEN_PAGES
                     /\ initializingCount < PAGE_OPEN_CONCURRENCY
                     /\ availablePageSlots > 0
                     /\ Len(pendingTasks) > 0
      toStart == Min3(PAGE_OPEN_CONCURRENCY - initializingCount, availablePageSlots,
                      Len(pendingTasks))
  IN IF shouldPauseNewTasks \/ ~canOpenMore THEN [st |-> status, started |-> {}]
     ELSE PromoteLoop(status, pendingTasks, toStart)

FreeSlot(t) == CHOOSE k \in 1..MaxInitCalls : inits[t][k] = "idle"

\* initializeTask up to its call of runOne, for the promoted tasks ts in
\* order: the import and the shared browser are at hand, so this runs in the
\* microtasks of the admission pass; the call reads the open-page count again
\* and puts the task back when the count exceeds the limit
RECURSIVE InitCheck(_, _)
InitCheck(st, ts) ==
  IF ts = <<>> THEN [st |-> st, run |-> {}]
  ELSE LET t == Head(ts)
       IN IF OpenPagesOf(st, page) > MAX_OPEN_PAGES
          THEN InitCheck([st EXCEPT ![t] = PENDING], Tail(ts))
          ELSE LET r == InitCheck(st, Tail(ts))
               IN [st |-> r.st, run |-> r.run \cup {t}]

\* onPageClosed: one admission pass; every promoted task gets an
\* initializeTask call that is not awaited.  A call that finds no shared
\* browser (the scheduler has been stopped) first waits for a new one to be
\* launched.
tryStartNewTaskAfterClose ==
  /\ AtHandler("page-closed")
  /\ LET a == Admission
         r == IF sharedBrowser = "open" THEN InitCheck(a.st, Ascending(a.started))
              ELSE [st |-> a.st, run |-> {}]
         launch == IF sharedBrowser = "open" THEN {} ELSE a.started
     IN /\ \A t \in r.run \cup launch : \E k \in 1..MaxInitCalls : inits[t][k] = "idle"
        /\ status' = r.st
        /\ inits' = [t \in TaskIds |->
                       IF t \in r.run THEN [inits[t] EXCEPT ![FreeSlot(t)] = "run"]
                       ELSE IF t \in launch THEN [inits[t] EXCEPT ![FreeSlot(t)] = "launch"]
                       ELSE inits[t]]
        /\ timer' = [t \in TaskIds |->
                       IF t \in r.run /\ timer[t] = "none" THEN "undefined" ELSE timer[t]]
  /\ page' = IF shouldPauseNewTasks THEN page ELSE clearClosedPages(status, page)
  /\ EvDone(loc, <<>>)
  /\ fresh' = (fresh /\ status' = status)
  /\ UNCHANGED <<tasks, view, attrVars, runVars, CONFIG, batchVars,
                 cycleVars, clockVars, rateVars, statVars, notify>>

(* --------------------------- initializeTask ---------------------------- *)
record429Error ==
  /\ consecutive429Errors' = consecutive429Errors + 1
  /\ pauseUntil' = IF consecutive429Errors + 1 >= maxConsecutive429Errors
                   THEN now + pauseDuration ELSE pauseUntil

reset429ErrorCount ==
  /\ consecutive429Errors' = 0
  /\ UNCHANGED pauseUntil

\* runOne returns ok, which takes a browser that is open: the driver has
\* handed the page over (adapter.addTask);
\* the logged-in probe that follows is one short call on the new page, which
\* the model lets return before anything else runs; the task is then set
\* Initializing, whatever its status, and task-initialized is raised
InitRunOk(t, k) ==
  /\ ~Urgent
  /\ inits[t][k] = "run"
  /\ sharedBrowser = "open"
  /\ page' = [page EXCEPT ![t] = "open"]
  /\ view' = [view EXCEPT ![t] = "start"]
  /\ reset429ErrorCount
  /\ status' = [status EXCEPT ![t] = INITIALIZING]
  /\ inits' = [inits EXCEPT ![t][k] = "idle"]
  /\ triggerEvent(loc, <<"task-initialized">>)
  /\ UNCHANGED <<tasks, timer, attrVars, runVars, CONFIG, batchVars, cycleVars, clockVars,
                 statVars, notify, fresh>>

\* an initializeTask call that rejects, as the handler attached by the
\* admission pass takes it: the breaker is fed, the failure is counted and
\* the task is made Error; nothing is disposed of and no event is raised
InitRunReject(t, k, is429Error) ==
  /\ ~Urgent
  /\ inits[t][k] = "run"
  /\ failed < MaxFailed
  /\ IF is429Error THEN record429Error ELSE reset429ErrorCount
  /\ timer' = [timer EXCEPT ![t] = "none"]
  /\ failed' = failed + 1
  /\ status' = [status EXCEPT ![t] = ERROR]
  /\ inits' = [inits EXCEPT ![t][k] = "idle"]
  /\ UNCHANGED <<tasks, page, view, attrVars, runVars, CONFIG, batchVars, cycleVars, clockVars,
                 evVars, submitSolution, cycleSubmitSolution, totalCompleted, notify, fresh>>

\* runOne fails or throws: the breaker is fed, the page reference is
\* disposed of, the failure is counted, the task is Pending again and
\* page-closed is raised
InitRunFail(t, k, is429Error) ==
  /\ ~Urgent
  /\ inits[t][k] = "run"
  /\ failed < MaxFailed
  /\ IF is429Error THEN record429Error ELSE reset429ErrorCount
  /\ page' = [page EXCEPT ![t] = "none"]
  /\ view' = [view EXCEPT ![t] = "start"]
  /\ timer' = [timer EXCEPT ![t] = "none"]
  /\ failed' = failed + 1
  /\ status' = [status EXCEPT ![t] = PENDING]
  /\ inits' = [inits EXCEPT ![t][k] = "idle"]
  /\ triggerEvent(loc, <<"page-closed">>)
  /\ UNCHANGED <<tasks, attrVars, runVars, CONFIG, batchVars, cycleVars, clockVars,
                 submitSolution, cycleSubmitSolution, totalCompleted, notify, fresh>>

\* getSharedBrowser has launched a browser for an initializeTask call that
\* found none: the call reads the open-page count and goes on to runOne, or
\* puts the task back when the count exceeds the limit
InitLaunched(t, k) ==
  /\ ~Urgent
  /\ inits[t][k] = "launch"
  /\ sharedBrowser' = "open"
  /\ IF getOpenPagesCount > MAX_OPEN_PAGES
     THEN /\ status' = [status EXCEPT ![t] = PENDING]
          /\ inits' = [inits EXCEPT ![t][k] = "idle"]
          /\ UNCHANGED timer
     ELSE /\ inits' = [inits EXCEPT ![t][k] = "run"]
          /\ timer' = [timer EXCEPT ![t] = IF @ = "none" THEN "undefined" ELSE @]
          /\ UNCHANGED status
  /\ page' = clearClosedPages(status, page)
  /\ UNCHANGED <<tasks, view, attrVars, isRunning, intervalId, duplicateWarnings,
                 lastHealthCheckTime,
                 CONFIG, batchVars, cycleVars, clockVars, evVars, rateVars, statVars, notify, fresh>>

(* ------------------------ procedure plumbing --------------------------- *)
At(p, pc) == ~Urgent /\ loc[p].pc = pc

Goto(l, p, pc, lst) ==
  [l EXCEPT ![p].pc = pc, ![p].cur = Head(lst), ![p].list = Tail(lst),
            ![p].had = FALSE]

\* tasks tryClickStartSession works through: Initializing with an open page
ClickList(st, pg) == Ascending({t \in tasks : st[t] = INITIALIZING /\ pg[t] = "open"})

\* the head of its loop: a task without an open page is skipped, and so is
\* every task while a limit is reached
ClickNext(lst, st, pg) ==
  IF ActiveMiningOf(st, pg) >= MAX_ACTIVE_MINING \/ OpenPagesOf(st, pg) >= MAX_OPEN_PAGES
  THEN <<>>
  ELSE DropUntil(lst, {t \in tasks : pg[t] = "open"})

\* process p returns from procedure proc ("click" or "enforce") in the locals
\* l, the tables st and pg, having raised es in its last segment:
\*  - the event pass returns to its handler, which raises page-closed after
\*    tryClickStartSession or after onTaskMiningStarted's enforcement;
\*  - the tick goes from its enforcement to the last part of schedule()
Finish(p, l, proc, es, st, pg) ==
  IF p = "ev"
  THEN EvDone(l, es \o (IF Head(evBatch) \in {"task-initialized", "task-mining-started"}
                        THEN <<"page-closed">> ELSE <<>>))
  ELSE IF proc = "enforce" /\ l[p].snap
  THEN LET nxt == ClickNext(ClickList(st, pg), st, pg)
       IN triggerEvent([l EXCEPT ![p] = IF nxt = <<>> THEN NullLoc
                                        ELSE Goto([l EXCEPT ![p] = NullLoc], p, "click_eval", nxt)[p]],
                       es \o <<"task-initialized">>)
  ELSE triggerEvent([l EXCEPT ![p] = NullLoc], es)

(* ------------------------ tryClickStartSession ------------------------- *)
ClickContinue(p, l, lst, es, st, pg) ==
  LET nxt == ClickNext(lst, st, pg)
  IN IF nxt = <<>> THEN Finish(p, l, "click", es, st, pg)
     ELSE triggerEvent(Goto(l, p, "click_eval", nxt), es)

\* onTaskInitialized; the loop reads the open-page count for its first task
OnTaskInitialized ==
  /\ AtHandler("task-initialized")
  /\ ClickContinue("ev", loc, ClickList(status, page), <<>>, status, page)
  /\ page' = IF ClickList(status, page) # <<>> THEN clearClosedPages(status, page) ELSE page
  /\ UNCHANGED <<tasks, status, view, timer, attrVars, inits, runVars, CONFIG, batchVars, cycleVars,
                 clockVars, rateVars, statVars, notify, fresh>>

\* after the probes of the page: a page that shows the start button is
\* clicked unless a limit is reached now; the click starts mining or has no
\* effect
ClickEval(p, effect) ==
  /\ At(p, "click_eval")
  /\ LET t == loc[p].cur
         clickable == /\ page[t] = "open"
                      /\ view[t] = "start"
                      /\ getActiveMiningCount < MAX_ACTIVE_MINING
                      /\ getOpenPagesCount < MAX_OPEN_PAGES
     IN IF clickable
        THEN /\ startSessionClickCount[t] < MaxClicks
             /\ startSessionClickCount' = [startSessionClickCount EXCEPT ![t] = @ + 1]
             /\ lastStartSessionClickTime' = [lastStartSessionClickTime EXCEPT ![t] = now]
             /\ timer' = [timer EXCEPT ![t] = "set"]
             /\ view' = [view EXCEPT ![t] = effect]
             /\ loc' = [loc EXCEPT ![p].pc = "click_wait"]
             /\ UNCHANGED <<pendingEvents, isProcessingEvents, evBatch>>
        ELSE /\ effect = "mining"
             /\ ClickContinue(p, loc, loc[p].list, <<>>, status, page)
             /\ UNCHANGED <<startSessionClickCount, lastStartSessionClickTime, timer, view>>
  /\ UNCHANGED <<tasks, status, page, miningCycle, hasSubmittedSolution, crashRefreshCount,
                 lastCrashRefreshTime, inits, runVars, CONFIG, batchVars, cycleVars, clockVars,
                 rateVars, statVars, notify, fresh>>

\* the task's page is stuck on the wallet step ("Choose a Destination
\* address"): the task is set Pending and initializeTask is called for it
\* without being awaited, up to its call of runOne as in the admission pass;
\* the loop goes on with the next task
ClickStuck(p) ==
  /\ At(p, "click_eval")
  /\ LET t == loc[p].cur
         st == [status EXCEPT ![t] = PENDING]
         over == OpenPagesOf(st, page) > MAX_OPEN_PAGES
     IN /\ page[t] = "open"
        /\ view[t] = "wallet"
        /\ status[t] # ERROR
        /\ \E k \in 1..MaxInitCalls : inits[t][k] = "idle"
        /\ status' = st
        /\ inits' = IF sharedBrowser # "open" THEN [inits EXCEPT ![t][FreeSlot(t)] = "launch"]
                    ELSE IF over THEN inits
                    ELSE [inits EXCEPT ![t][FreeSlot(t)] = "run"]
        /\ timer' = IF sharedBrowser = "open" /\ ~over /\ timer[t] = "none"
                    THEN [timer EXCEPT ![t] = "undefined"] ELSE timer
        /\ ClickContinue(p, loc, loc[p].list, <<>>, status', page)
  /\ UNCHANGED <<tasks, page, view, attrVars, runVars, CONFIG, batchVars, cycleVars, clockVars,
                 rateVars, statVars, notify, fresh>>

\* after the wait that follows the click: task-status-changed is raised
ClickWait(p) ==
  /\ At(p, "click_wait")
  /\ ClickContinue(p, loc, loc[p].list, <<"task-status-changed">>, status, page)
  /\ UNCHANGED <<taskVars, inits, runVars, CONFIG, batchVars, cycleVars, clockVars, rateVars,
                 statVars, notify, fresh>>

(* ------------------ checkAndEnforceActiveMiningLimit ------------------- *)
EnforceList(pg) == Ascending({t \in tasks : pg[t] = "open"})

\* the loop over the excess tasks: clickStopSession returns false at once for
\* a task without an open page, and closeTask follows
StopNext(p, l, lst, es, st, pg) ==
  IF lst = <<>> THEN Finish(p, l, "enforce", es, st, pg)
  ELSE IF pg[Head(lst)] = "open" THEN triggerEvent(Goto(l, p, "enf_stop", lst), es)
  ELSE triggerEvent(Goto(l, p, "enf_close", lst), es)

EnterEnforce(p, l, es, st, pg) ==
  LET lst == EnforceList(pg)
  IN IF lst = <<>> THEN Finish(p, l, "enforce", es, st, pg)
     ELSE triggerEvent([Goto(l, p, "enf_probe", lst) EXCEPT ![p].acc = <<>>], es)

\* onTaskStatusChanged
OnTaskStatusChanged ==
  /\ AtHandler("task-status-changed")
  /\ EnterEnforce("ev", loc, <<>>, status, page)
  /\ UNCHANGED <<taskVars, inits, runVars, CONFIG, batchVars, cycleVars, clockVars, rateVars,
                 statVars, notify, fresh>>

\* onTaskMiningStarted
OnTaskMiningStarted ==
  /\ AtHandler("task-mining-started")
  /\ EnterEnforce("ev", loc, <<>>, status, page)
  /\ UNCHANGED <<taskVars, inits, runVars, CONFIG, batchVars, cycleVars, clockVars, rateVars,
                 statVars, notify, fresh>>

\* the probe of one page; after the last probe the tasks probed mining
\* beyond the first MAX_ACTIVE_MINING, in creation order, are to be stopped
EnforceProbe(p) ==
  /\ At(p, "enf_probe")
  /\ LET t == loc[p].cur
         isMining == page[t] = "open" /\ view[t] = "mining"
         actuallyMiningTasks == IF isMining THEN Append(loc[p].acc, t) ELSE loc[p].acc
         l == [loc EXCEPT ![p].acc = actuallyMiningTasks]
         toStop == SubSeq(actuallyMiningTasks, MAX_ACTIVE_MINING + 1,
                          Len(actuallyMiningTasks))
     IN IF loc[p].list # <<>> THEN triggerEvent(Goto(l, p, "enf_probe", loc[p].list), <<>>)
        ELSE IF Len(actuallyMiningTasks) > MAX_ACTIVE_MINING
        THEN StopNext(p, l, toStop, <<>>, status, page)
        ELSE Finish(p, l, "enforce", <<>>, status, page)
  /\ UNCHANGED <<taskVars, inits, runVars, CONFIG, batchVars, cycleVars, clockVars, rateVars,
                 statVars, notify, fresh>>

\* clickStopSession after its first wait: the stop button is clicked when the
\* page shows it; without a click the call returns false and closeTask begins
EnforceStopClick(p, clicked) ==
  /\ At(p, "enf_stop")
  /\ LET t == loc[p].cur
     IN IF clicked
        THEN /\ page[t] = "open"
             /\ view[t] = "mining"
             /\ view' = [view EXCEPT ![t] = "start"]
             /\ loc' = [loc EXCEPT ![p].pc = "enf_stopped"]
        ELSE /\ loc' = [loc EXCEPT ![p].pc = "enf_close", ![p].had = (page[t] = "open")]
             /\ UNCHANGED view
  /\ UNCHANGED <<tasks, status, page, timer, attrVars, inits, runVars, CONFIG, batchVars,
                 cycleVars, clockVars, pendingEvents, isProcessingEvents, evBatch,
                 rateVars, statVars, notify, fresh>>

\* clickStopSession returns after the click. With the page still open it
\* returns true. When the page was closed meanwhile the second wait throws
\* and the call returns false, unless the page went away only after the wait,
\* under the last probe, whose error is swallowed: then it returns true.
\* On true the task is set Initializing.
EnforceStopped(p, stopped) ==
  /\ At(p, "enf_stopped")
  /\ LET t == loc[p].cur
     IN /\ page[t] = "open" => stopped
        /\ IF stopped
           THEN /\ status' = [status EXCEPT ![t] = INITIALIZING]
                /\ timer' = [timer EXCEPT ![t] = IF @ = "none" THEN "none" ELSE "null"]
                /\ StopNext(p, loc, loc[p].list, <<>>, status', page)
           ELSE /\ loc' = [loc EXCEPT ![p].pc = "enf_close", ![p].had = FALSE]
                /\ UNCHANGED <<status, timer, pendingEvents, isProcessingEvents, evBatch>>
  /\ UNCHANGED <<tasks, page, view, attrVars, inits, runVars, CONFIG, batchVars, cycleVars,
                 clockVars, rateVars, statVars, notify, fresh>>

\* closeTask over status and page tables
ClosedStatus(st, t) == [st EXCEPT ![t] = IF @ = PENDING THEN PENDING ELSE CLOSED]

\* closeTask of the excess task returns
EnforceClose(p) ==
  /\ At(p, "enf_close")
  /\ LET t == loc[p].cur
     IN /\ page' = [page EXCEPT ![t] = "none"]
        /\ status' = ClosedStatus(status, t)
        /\ StopNext(p, loc, loc[p].list, IF loc[p].had THEN <<"page-closed">> ELSE <<>>,
                    status', page')
  /\ UNCHANGED <<tasks, view, timer, attrVars, inits, runVars, CONFIG, batchVars, cycleVars,
                 clockVars, rateVars, statVars, notify, fresh>>

(* ------------------------- closeCompletedTasks ------------------------- *)
IsCompleted(st) == {t \in tasks : st[t] \in {COMPLETED, WAITING_CLOSE}}

CompletedNext(p, l, lst, es, st, pg) ==
  LET nxt == DropUntil(lst, IsCompleted(st))
  IN IF nxt = <<>> THEN EvDone(l, es)
     ELSE triggerEvent([Goto(l, p, "cc_close", nxt) EXCEPT ![p].had = (pg[Head(nxt)] = "open")],
                       es)

\* onTaskCompleted
OnTaskCompleted ==
  /\ AtHandler("task-completed")
  /\ CompletedNext("ev", loc, Ascending(IsCompleted(status)), <<>>, status, page)
  /\ UNCHANGED <<taskVars, inits, runVars, CONFIG, batchVars, cycleVars, clockVars, rateVars,
                 statVars, notify, fresh>>

\* closeTask of a completed task returns: the completion is counted
closeCompletedTasks ==
  /\ At("ev", "cc_close")
  /\ LET t == loc["ev"].cur
     IN /\ page' = [page EXCEPT ![t] = "none"]
        /\ status' = ClosedStatus(status, t)
        /\ timer' = [timer EXCEPT ![t] = "none"]
        /\ totalCompleted' = totalCompleted + 1
        /\ CompletedNext("ev", loc, loc["ev"].list,
                         IF loc["ev"].had THEN <<"page-closed">> ELSE <<>>, status', page')
  /\ UNCHANGED <<tasks, view, attrVars, inits, runVars, CONFIG, batchVars, cycleVars, clockVars,
                 rateVars, failed, submitSolution, cycleSubmitSolution, notify, fresh>>

(* --------------------------- handleErrorTasks -------------------------- *)
\* onTaskError
OnTaskError ==
  /\ AtHandler("task-error")
  /\ LET errorTasks == Ascending({t \in tasks : status[t] = ERROR /\ page[t] # "none"})
     IN IF errorTasks = <<>> THEN EvDone(loc, <<>>)
        ELSE triggerEvent(Goto(loc, "ev", "err_dispose", errorTasks), <<>>)
  /\ UNCHANGED <<taskVars, inits, runVars, CONFIG, batchVars, cycleVars, clockVars, rateVars,
                 statVars, notify, fresh>>

\* disposeTaskPage of an Error task returns: the task is reset to Pending
handleErrorTasks ==
  /\ At("ev", "err_dispose")
  /\ LET t == loc["ev"].cur
     IN /\ page' = [page EXCEPT ![t] = "none"]
        /\ status' = [status EXCEPT ![t] = PENDING]
        /\ timer' = [timer EXCEPT ![t] = "none"]
        /\ startSessionClickCount' = [startSessionClickCount EXCEPT ![t] = 0]
        /\ lastStartSessionClickTime' = [lastStartSessionClickTime EXCEPT ![t] = NoTime]
        /\ crashRefreshCount' = [crashRefreshCount EXCEPT ![t] = 0]
        /\ lastCrashRefreshTime' = [lastCrashRefreshTime EXCEPT ![t] = NoTime]
        /\ IF loc["ev"].list = <<>> THEN EvDone(loc, <<>>)
           ELSE triggerEvent(Goto(loc, "ev", "err_dispose", loc["ev"].list), <<>>)
  /\ UNCHANGED <<tasks, view, miningCycle, hasSubmittedSolution, inits, runVars,
                 CONFIG, batchVars, cycleVars, clockVars, rateVars, statVars, notify, fresh>>

(* ------------------------------ the tick ------------------------------- *)
checkCycleReset == cycleHour # <<>> /\ cycleHour[1] # hour

\* the status update loop of schedule(): the next task with an open page that
\* is not waiting to be closed; after the last one the tick comes to its
\* health check
TickUpdate(l, lst, es, st, pg) ==
  LET nxt == DropUntil(lst, {t \in tasks : pg[t] = "open" /\ st[t] # WAITING_CLOSE})
  IN IF nxt = <<>> THEN triggerEvent([l EXCEPT !["tick"].pc = "health"], es)
     ELSE triggerEvent(Goto(l, "tick", IF st[Head(nxt)] = ERROR THEN "upd_err" ELSE "upd_detect",
                            nxt), es)

\* a forced cleanup that finds no task to close
ForceListEmpty(n, st, pg) == <<>>

\* the tasks a forced cleanup may close: Initializing first, then the newest;
\* the cleanup at the start of schedule() spares the Mining tasks
ForceList(n, st, pg) ==
  LET S == {t \in tasks : /\ st[t] \notin {CLOSED, ERROR, PENDING}
                          /\ n = 1 => st[t] # MINING
                          /\ pg[t] = "open"}
  IN Reverse(Ascending({t \in S : st[t] = INITIALIZING}))
       \o Reverse(Ascending({t \in S : st[t] # INITIALIZING}))

\* the second forced cleanup, then the status update loop
TickCleanup2(l, es, st, pg) ==
  LET lst == ForceList(2, st, pg)
  IN IF OpenPagesOf(st, pg) > MAX_OPEN_PAGES /\ lst # <<>>
     THEN triggerEvent([Goto(l, "tick", "force2", lst) EXCEPT !["tick"].had = TRUE], es)
     ELSE TickUpdate(l, Ascending(tasks), es, st, pg)

\* the snapshots of schedule(): task-completed is raised when a task is
\* Completed, and the tick remembers whether a task is Initializing
TickSnapshot(l, es, st, pg) ==
  TickCleanup2([l EXCEPT !["tick"].snap = (\E t \in tasks : st[t] = INITIALIZING)],
               es \o (IF IsCompleted(st) # {} THEN <<"task-completed">> ELSE <<>>), st, pg)

\* one iteration of a forced cleanup
ForceNext(n, l, lst, es, st, pg) ==
  IF lst = <<>> \/ OpenPagesOf(st, pg) <= MAX_OPEN_PAGES
  THEN IF n = 1 THEN TickSnapshot(l, es, st, pg)
       ELSE TickUpdate(l, Ascending(tasks), es, st, pg)
  ELSE triggerEvent([Goto(l, "tick", IF n = 1 THEN "force1" ELSE "force2", lst)
                       EXCEPT !["tick"].had = (pg[Head(lst)] = "open")], es)

\* the last block of a hard reset: every task is Pending without a page, the
\* breaker is cleared, page-closed is raised
HardResetFinal(l) ==
  /\ status' = [t \in TaskIds |-> IF t \in tasks THEN PENDING ELSE status[t]]
  /\ page' = [t \in TaskIds |-> "none"]
  /\ view' = [t \in TaskIds |-> "start"]
  /\ timer' = [t \in TaskIds |-> "none"]
  /\ miningCycle' = [t \in TaskIds |-> <<>>]
  /\ hasSubmittedSolution' = [t \in TaskIds |-> FALSE]
  /\ crashRefreshCount' = [t \in TaskIds |-> 0]
  /\ lastCrashRefreshTime' = [t \in TaskIds |-> NoTime]
  /\ startSessionClickCount' = [t \in TaskIds |-> 0]
  /\ lastStartSessionClickTime' = [t \in TaskIds |-> NoTime]
  /\ consecutive429Errors' = 0
  /\ pauseUntil' = 0
  /\ cycleSubmitSolution' = 0
  /\ fresh' = TRUE
  /\ triggerEvent([l EXCEPT !["tick"] = [NullLoc EXCEPT !.pc = "main"]], <<"page-closed">>)

\* the interval timer calls schedule(): the cycle check, and in hard mode the reset, which
\* closes the open pages one after the other
TickStart ==
  /\ At("tick", "idle")
  /\ intervalId
  /\ isRunning
  /\ IF RESET_AT_HOUR /\ checkCycleReset
     THEN /\ cycle < MaxHours
          /\ cycle' = cycle + 1
          /\ cycleHour' = <<hour>>
          /\ LET nxt == DropUntil(Ascending(tasks), {t \in tasks : page[t] = "open"})
             IN IF nxt = <<>> THEN HardResetFinal(loc)
                ELSE /\ loc' = Goto(loc, "tick", "reset_close", nxt)
                     /\ UNCHANGED <<status, page, view, timer, attrVars, rateVars,
                                    cycleSubmitSolution, fresh, pendingEvents,
                                    isProcessingEvents, evBatch>>
     ELSE /\ cycleHour' = IF RESET_AT_HOUR /\ cycleHour = <<>> THEN <<hour>> ELSE cycleHour
          /\ loc' = [loc EXCEPT !["tick"].pc = "main"]
          /\ UNCHANGED <<cycle, status, page, view, timer, attrVars, rateVars,
                         cycleSubmitSolution, fresh, pendingEvents, isProcessingEvents,
                         evBatch>>
  /\ UNCHANGED <<tasks, inits, runVars, CONFIG, batchVars, clockVars, failed, submitSolution,
                 totalCompleted, notify>>

\* closeTask(id, false) of the hard reset returns
HardResetClose ==
  /\ At("tick", "reset_close")
  /\ LET t == loc["tick"].cur
         pg == [page EXCEPT ![t] = "none"]
         nxt == DropUntil(loc["tick"].list, {u \in tasks : pg[u] = "open"})
     IN IF nxt = <<>> THEN HardResetFinal(loc)
        ELSE /\ page' = pg
             /\ view' = [view EXCEPT ![t] = "start"]
             /\ status' = ClosedStatus(status, t)
             /\ loc' = Goto(loc, "tick", "reset_close", nxt)
             /\ UNCHANGED <<timer, attrVars, rateVars, cycleSubmitSolution, fresh,
                            pendingEvents, isProcessingEvents, evBatch>>
  /\ UNCHANGED <<tasks, inits, runVars, CONFIG, batchVars, cycleVars, clockVars, failed,
                 submitSolution, totalCompleted, notify>>

\* schedule() after the cycle check: the forced cleanup when the open pages
\* exceed the limit, the snapshots, the second cleanup, the first status probe
TickMain ==
  /\ ~Sync
  /\ loc["tick"].pc = "main"
  /\ LET lst == ForceList(1, status, page)
     IN IF getOpenPagesCount > MAX_OPEN_PAGES /\ lst # <<>>
        THEN triggerEvent([Goto(loc, "tick", "force1", lst) EXCEPT !["tick"].had = TRUE], <<>>)
        ELSE TickSnapshot(loc, <<>>, status, page)
  /\ page' = clearClosedPages(status, page)
  /\ UNCHANGED <<tasks, status, view, timer, attrVars, inits, runVars, CONFIG, batchVars, cycleVars,
                 clockVars, rateVars, statVars, notify, fresh>>

\* closeTask of a forced cleanup returns
ForceClose(n) ==
  /\ At("tick", IF n = 1 THEN "force1" ELSE "force2")
  /\ LET t == loc["tick"].cur
     IN /\ page' = [page EXCEPT ![t] = "none"]
        /\ view' = [view EXCEPT ![t] = "start"]
        /\ status' = ClosedStatus(status, t)
        /\ triggerEvent([loc EXCEPT !["tick"].pc = IF n = 1 THEN "force1b" ELSE "force2b"],
                        IF loc["tick"].had THEN <<"page-closed">> ELSE <<>>)
  /\ UNCHANGED <<tasks, timer, attrVars, inits, runVars, CONFIG, batchVars, cycleVars, clockVars,
                 rateVars, statVars, notify, fresh>>

\* the forced cleanup puts the closed task back to Pending and goes on
ForceReset(n) ==
  /\ ~Sync
  /\ loc["tick"].pc = (IF n = 1 THEN "force1b" ELSE "force2b")
  /\ LET t == loc["tick"].cur
     IN /\ status' = [status EXCEPT ![t] = PENDING]
        /\ page' = [page EXCEPT ![t] = "none"]
        /\ timer' = [timer EXCEPT ![t] = "none"]
        /\ ForceNext(n, loc, loc["tick"].list, <<>>, status', page')
  /\ UNCHANGED <<tasks, view, attrVars, inits, runVars, CONFIG, batchVars, cycleVars, clockVars,
                 rateVars, statVars, notify, fresh>>

(* --------------------------- the health check ------------------------- *)
\* this.healthCheckInterval: the constructor does not set it, and nothing
\* else does (<<>> is undefined)
healthCheckInterval == <<>>

\* now - this.lastHealthCheckTime >= this.healthCheckInterval as the
\* language computes it: the difference with undefined is NaN, and a
\* comparison with NaN or with undefined is false
shouldHealthCheck ==
  /\ lastHealthCheckTime # <<>>
  /\ healthCheckInterval # <<>>
  /\ now - lastHealthCheckTime[1] >= healthCheckInterval[1]

\* the tasks of a health check pass: Initializing or Mining with an open page
HealthList(st, pg) ==
  Ascending({t \in tasks : pg[t] = "open" /\ st[t] \in {INITIALIZING, MINING}})

\* after the status update loop: the health check pass begins when it is
\* due, and the enforcement follows
TickHealth ==
  /\ ~Sync
  /\ loc["tick"].pc = "health"
  /\ IF shouldHealthCheck
     THEN /\ lastHealthCheckTime' = <<now>>
          /\ IF HealthList(status, page) = <<>>
             THEN EnterEnforce("tick", loc, <<>>, status, page)
             ELSE triggerEvent(Goto(loc, "tick", "health_eval", HealthList(status, page)), <<>>)
     ELSE /\ EnterEnforce("tick", loc, <<>>, status, page)
          /\ UNCHANGED lastHealthCheckTime
  /\ UNCHANGED <<taskVars, inits, isRunning, intervalId, sharedBrowser, duplicateWarnings,
                 CONFIG, batchVars, cycleVars, clockVars, rateVars, statVars, notify, fresh>>

\* the health check of one task has returned: the page is healthy or out of
\* the checked URLs, or it has recovered by the reload and shows the start
\* button, or it is lost, disposed of and the task reset to Pending
TickHealthTask(outcome) ==
  /\ At("tick", "health_eval")
  /\ LET t == loc["tick"].cur
         acts == page[t] = "open" /\ outcome # "healthy"
         nxt == DropUntil(loc["tick"].list, {u \in tasks : page[u] = "open"})
     IN /\ status' = IF ~acts THEN status
                     ELSE [status EXCEPT ![t] = IF outcome = "recovered" THEN INITIALIZING
                                                 ELSE PENDING]
        /\ view' = IF acts THEN [view EXCEPT ![t] = "start"] ELSE view
        /\ page' = IF acts /\ outcome = "lost" THEN [page EXCEPT ![t] = "none"] ELSE page
        /\ timer' = IF acts /\ outcome = "lost" THEN [timer EXCEPT ![t] = "none"] ELSE timer
        /\ startSessionClickCount' =
             IF acts /\ outcome = "lost" THEN [startSessionClickCount EXCEPT ![t] = 0]
             ELSE startSessionClickCount
        /\ lastStartSessionClickTime' =
             IF acts /\ outcome = "lost" THEN [lastStartSessionClickTime EXCEPT ![t] = NoTime]
             ELSE lastStartSessionClickTime
        /\ IF nxt = <<>> THEN EnterEnforce("tick", loc, <<>>, status', page')
           ELSE triggerEvent(Goto(loc, "tick", "health_eval", nxt), <<>>)
  /\ UNCHANGED <<tasks, miningCycle, hasSubmittedSolution, crashRefreshCount,
                 lastCrashRefreshTime, inits, runVars, CONFIG, batchVars, cycleVars, clockVars,
                 rateVars, statVars, notify, fresh>>

(* --------------------------- the soft reset ---------------------------- *)
\* task.miningCycle || oldCycle: null and 0 both give oldCycle
MiningCycleOr(mc, oldCycle) ==
  IF mc = <<>> \/ mc = <<0>> THEN oldCycle ELSE mc[1]

\* the second loop of the soft reset from the tasks lst on, up to its next
\* closeTask: preserved tasks are skipped, a task that is not Mining and has
\* an open page is closed first, every other task that is not Mining is reset
RECURSIVE SweepRun(_, _, _, _)
SweepRun(lst, keep, st, pg) ==
  IF lst = <<>> THEN [reset |-> {}, rest |-> <<>>]
  ELSE LET t == Head(lst)
           r == SweepRun(Tail(lst), keep, st, pg)
       IN IF t \in keep THEN r
          ELSE IF st[t] # MINING /\ pg[t] = "open" THEN [reset |-> {}, rest |-> lst]
          ELSE IF st[t] # MINING THEN [reset |-> r.reset \cup {t}, rest |-> r.rest]
          ELSE r

\* the task tables after the tasks R have been reset to Pending
SoftAssign(R, st, pg, tm, mc) ==
  /\ status' = [t \in TaskIds |-> IF t \in R THEN PENDING ELSE st[t]]
  /\ page' = [t \in TaskIds |-> IF t \in R THEN "none" ELSE pg[t]]
  /\ view' = [t \in TaskIds |-> IF t \in R THEN "start" ELSE view[t]]
  /\ timer' = [t \in TaskIds |-> IF t \in R THEN "none" ELSE tm[t]]
  /\ miningCycle' = [t \in TaskIds |-> IF t \in R THEN <<>> ELSE mc[t]]
  /\ hasSubmittedSolution' =
       [t \in TaskIds |-> IF t \in R THEN FALSE ELSE hasSubmittedSolution[t]]
  /\ crashRefreshCount' = [t \in TaskIds |-> IF t \in R THEN 0 ELSE crashRefreshCount[t]]
  /\ lastCrashRefreshTime' =
       [t \in TaskIds |-> IF t \in R THEN NoTime ELSE lastCrashRefreshTime[t]]
  /\ startSessionClickCount' =
       [t \in TaskIds |-> IF t \in R THEN 0 ELSE startSessionClickCount[t]]
  /\ lastStartSessionClickTime' =
       [t \in TaskIds |-> IF t \in R THEN NoTime ELSE lastStartSessionClickTime[t]]

\* the second loop, the tasks R0 being reset already; after the loop the
\* cycle counters and the breaker are cleared and resetCycle returns
SoftSweep(l, lst, R0, es, st, pg, tm, mc) ==
  LET r == SweepRun(lst, Range(l["tick"].acc), st, pg)
  IN /\ SoftAssign(R0 \cup r.reset, st, pg, tm, mc)
     /\ IF r.rest = <<>>
        THEN /\ cycleSubmitSolution' = 0
             /\ consecutive429Errors' = 0
             /\ pauseUntil' = 0
             /\ triggerEvent([l EXCEPT !["tick"] = NullLoc], es)
        ELSE /\ triggerEvent([Goto(l, "tick", "soft_sweep", r.rest)
                                EXCEPT !["tick"].had = TRUE], es)
             /\ UNCHANGED <<cycleSubmitSolution, rateVars>>

\* the first loop: closeTask for the next task of tasksToClose, or the second
\* loop when there is none left
SoftCloseNext(l, lst, es, st, pg, tm, mc) ==
  IF lst = <<>> THEN SoftSweep(l, Ascending(tasks), {}, es, st, pg, tm, mc)
  ELSE /\ SoftAssign({}, st, pg, tm, mc)
       /\ triggerEvent([Goto(l, "tick", "soft_close", lst)
                          EXCEPT !["tick"].had = (pg[Head(lst)] = "open")], es)
       /\ UNCHANGED <<cycleSubmitSolution, rateVars>>

\* resetCycle() is called with RESET_AT_HOUR off: the cycle advances, the
\* Mining tasks with an open page are split into those to close and those to
\* preserve, and a preserved task without a miningCycle gets the outgoing one.
\* entry keeps what activeMiningTasks held when the call began.
SoftResetStart ==
  /\ At("tick", "idle")
  /\ isRunning
  /\ ~RESET_AT_HOUR
  /\ cycle < MaxSoftResets
  /\ cycle' = cycle + 1
  /\ cycleHour' = <<hour>>
  /\ LET oldCycle == cycle
         activeMiningTasks == {t \in tasks : status[t] = MINING /\ page[t] = "open"}
         isFromEarlierCycle(t) == MiningCycleOr(miningCycle[t], oldCycle) < oldCycle
         tasksToClose == Ascending({t \in activeMiningTasks : isFromEarlierCycle(t)})
         tasksToPreserve == Ascending({t \in activeMiningTasks : ~isFromEarlierCycle(t)})
         mc == [t \in TaskIds |->
                  IF t \in Range(tasksToPreserve) /\ miningCycle[t] \in {<<>>, <<0>>}
                  THEN <<oldCycle>> ELSE miningCycle[t]]
         l == [loc EXCEPT !["tick"].acc = tasksToPreserve,
                          !["tick"].entry = {<<t, miningCycle[t]>> : t \in activeMiningTasks}]
     IN SoftCloseNext(l, tasksToClose, <<>>, status, page, timer, mc)
  /\ UNCHANGED <<tasks, inits, runVars, CONFIG, batchVars, clockVars, failed, submitSolution,
                 totalCompleted, notify, fresh>>

\* closeTask of a task of tasksToClose returns: the task is made Pending and
\* loses its miningCycle and its timer
SoftResetClose ==
  /\ At("tick", "soft_close")
  /\ LET t == loc["tick"].cur
     IN SoftCloseNext(loc, loc["tick"].list,
                      IF loc["tick"].had THEN <<"page-closed">> ELSE <<>>,
                      [status EXCEPT ![t] = PENDING], [page EXCEPT ![t] = "none"],
                      [timer EXCEPT ![t] = "none"], [miningCycle EXCEPT ![t] = <<>>])
  /\ UNCHANGED <<tasks, inits, runVars, CONFIG, batchVars, cycleVars, clockVars, failed,
                 submitSolution, totalCompleted, notify, fresh>>

\* closeTask of the second loop returns: the task is reset and the loop goes on
SoftResetSweep ==
  /\ At("tick", "soft_sweep")
  /\ LET t == loc["tick"].cur
     IN SoftSweep(loc, loc["tick"].list, {t},
                  IF loc["tick"].had THEN <<"page-closed">> ELSE <<>>,
                  status, page, timer, miningCycle)
  /\ UNCHANGED <<tasks, inits, runVars, CONFIG, batchVars, cycleVars, clockVars, failed,
                 submitSolution, totalCompleted, notify, fresh>>

(* ----------------------- the status update loop ------------------------ *)
\* what detectTaskStatus returns for a task of status s whose open page
\* shows v; "crashed" stands for Error with the message 'Page crashed'
detectedOn(s, v) ==
  CASE v = "crashed" -> "crashed"
    [] v = "wallet" -> IF s \in {INITIALIZING, PENDING} THEN INITIALIZING ELSE PENDING
    [] v = "other" -> IF s = INITIALIZING THEN INITIALIZING ELSE PENDING
    [] v = "waiting" -> COMPLETED
    [] v = "mining" -> MINING
    [] v = "stoponly" -> IF s \in {MINING, INITIALIZING} THEN MINING ELSE s
    [] v = "start" -> INITIALIZING
    [] OTHER -> s

\* detectTaskStatus on an open page.  A probe of a page that went away after
\* the call began fails and leaves the status as it is.
detectTaskStatus(t) ==
  IF page[t] # "open" THEN status[t] ELSE detectedOn(status[t], view[t])

\* the status the update loop records for task t, of the status table st,
\* when detectTaskStatus has returned detected: a detected Mining is not
\* recorded while the Mining tasks are at the ceiling
recordedStatus(st, t, detected) ==
  IF detected = st[t] THEN st[t]
  ELSE IF detected = MINING /\ ActiveMiningOf(st, page) >= MAX_ACTIVE_MINING THEN st[t]
  ELSE detected

\* what the tick does with an Error task or after the last crash refresh,
\* once disposeTaskPage has returned
ErrorReset(t) ==
  /\ page' = [page EXCEPT ![t] = "none"]
  /\ view' = [view EXCEPT ![t] = "start"]
  /\ status' = [status EXCEPT ![t] = PENDING]
  /\ timer' = [timer EXCEPT ![t] = "none"]
  /\ startSessionClickCount' = [startSessionClickCount EXCEPT ![t] = 0]
  /\ lastStartSessionClickTime' = [lastStartSessionClickTime EXCEPT ![t] = NoTime]
  /\ crashRefreshCount' = [crashRefreshCount EXCEPT ![t] = 0]
  /\ lastCrashRefreshTime' = [lastCrashRefreshTime EXCEPT ![t] = NoTime]
  /\ TickUpdate([loc EXCEPT !["tick"].base = 0], loc["tick"].list, <<>>, status', page')
  /\ UNCHANGED <<tasks, miningCycle, hasSubmittedSolution, inits, runVars, CONFIG, batchVars,
                 cycleVars, clockVars, rateVars, statVars, notify, fresh>>

\* an Error task found by the loop
TickErrorTask ==
  /\ At("tick", "upd_err")
  /\ ErrorReset(loc["tick"].cur)

\* the task whose page stayed crashed after the refreshes
TickCrashReset ==
  /\ At("tick", "upd_crash")
  /\ ErrorReset(loc["tick"].cur)

\* a tick that credits every completion it detects
CreditsEveryCompletion(t, detected) == detected = COMPLETED

\* the update loop credits a submitted solution when it detects Completed
\* and the task has none recorded
CreditsCompletion(t, detected) == detected = COMPLETED /\ ~hasSubmittedSolution[t]

\* a crash refresh that does not look at the time of the last one
canRefreshAtOnce(t) == crashRefreshCount[t] < 3

\* the update loop may refresh the crashed page of task t: the last refresh
\* is old enough (there is none: Infinity) and fewer than the limit were made
canRefreshCrashed(t) ==
  LET since == IF lastCrashRefreshTime[t] = NoTime THEN CrashRefreshSpacing
               ELSE now - lastCrashRefreshTime[t]
  IN since >= CrashRefreshSpacing /\ crashRefreshCount[t] < CrashRefreshLimit

\* the time the tick waits after the reload of a crashed page before it
\* probes the page again, in milliseconds
CrashReloadWait == 3000

\* an update loop that takes a task for stuck whatever the age of its last
\* click
stuckAfterClicks(t) ==
  /\ status[t] = INITIALIZING
  /\ startSessionClickCount[t] > 5

\* start clicks after which an Initializing task counts as stuck, and the
\* time its last click must be old, in milliseconds
StuckClickLimit == 5
StuckClickWait == 30000

\* the update loop finds task t, detected in the status it has, stuck in
\* Initializing
stuckInitializing(t) ==
  /\ status[t] = INITIALIZING
  /\ startSessionClickCount[t] > StuckClickLimit
  /\ lastStartSessionClickTime[t] # NoTime
  /\ now - lastStartSessionClickTime[t] > StuckClickWait

\* detectTaskStatus has returned for the current task of the loop; base
\* keeps stats.failed as it is when a crashed task is made Error.  A task
\* detected in the status it has and stuck in Initializing is made Error
\* and counted as failed; its page is left as it is and no event is raised
TickDetect ==
  /\ At("tick", "upd_detect")
  /\ LET t == loc["tick"].cur
         detected == detectTaskStatus(t)
         rest == loc["tick"].list
     IN IF detected = "crashed"
        THEN IF canRefreshCrashed(t)
             THEN /\ crashRefreshCount' = [crashRefreshCount EXCEPT ![t] = @ + 1]
                  /\ lastCrashRefreshTime' = [lastCrashRefreshTime EXCEPT ![t] = now]
                  /\ loc' = [loc EXCEPT !["tick"].pc = "upd_reload"]
                  /\ UNCHANGED <<failed, status, timer, miningCycle, hasSubmittedSolution,
                                 startSessionClickCount, lastStartSessionClickTime, submitSolution,
                                 cycleSubmitSolution, pendingEvents, isProcessingEvents,
                                 evBatch>>
             ELSE IF crashRefreshCount[t] >= CrashRefreshLimit
             THEN /\ status' = [status EXCEPT ![t] = ERROR]
                  /\ triggerEvent([loc EXCEPT !["tick"].pc = "upd_crash", !["tick"].base = failed],
                                  <<"task-error">>)
                  /\ UNCHANGED <<failed, timer, miningCycle, hasSubmittedSolution,
                                 crashRefreshCount, lastCrashRefreshTime,
                                 startSessionClickCount, lastStartSessionClickTime,
                                 submitSolution, cycleSubmitSolution>>
             ELSE /\ TickUpdate(loc, rest, <<>>, status, page)
                  /\ UNCHANGED <<failed, status, timer, attrVars, submitSolution,
                                 cycleSubmitSolution>>
        ELSE IF detected = status[t] /\ stuckInitializing(t)
        THEN /\ failed < MaxFailed
             /\ status' = [status EXCEPT ![t] = ERROR]
             /\ timer' = [timer EXCEPT ![t] = "none"]
             /\ failed' = failed + 1
             /\ TickUpdate(loc, rest, <<>>, status', page)
             /\ UNCHANGED <<attrVars, submitSolution, cycleSubmitSolution>>
        ELSE IF recordedStatus(status, t, detected) = status[t]
        THEN /\ TickUpdate(loc, rest, <<>>, status, page)
             /\ UNCHANGED <<failed, status, timer, attrVars, submitSolution,
                            cycleSubmitSolution>>
        ELSE /\ failed' = failed
             /\ status' = [status EXCEPT ![t] = recordedStatus(status, t, detected)]
             /\ crashRefreshCount' = IF status[t] = ERROR
                                     THEN [crashRefreshCount EXCEPT ![t] = 0]
                                     ELSE crashRefreshCount
             /\ lastCrashRefreshTime' = IF status[t] = ERROR
                                        THEN [lastCrashRefreshTime EXCEPT ![t] = NoTime]
                                        ELSE lastCrashRefreshTime
             /\ IF CreditsCompletion(t, detected)
                THEN /\ submitSolution' = submitSolution + 1
                     /\ cycleSubmitSolution' = cycleSubmitSolution + 1
                     /\ hasSubmittedSolution' = [hasSubmittedSolution EXCEPT ![t] = TRUE]
                ELSE UNCHANGED <<submitSolution, cycleSubmitSolution, hasSubmittedSolution>>
             /\ timer' = [timer EXCEPT ![t] = IF detected = COMPLETED THEN "none"
                                              ELSE IF detected = MINING /\ @ = "undefined"
                                              THEN "set" ELSE @]
             /\ miningCycle' = IF detected = MINING /\ timer[t] = "undefined"
                               THEN [miningCycle EXCEPT ![t] = <<cycle>>] ELSE miningCycle
             /\ startSessionClickCount' = IF detected = MINING
                                          THEN [startSessionClickCount EXCEPT ![t] = 0]
                                          ELSE startSessionClickCount
             /\ lastStartSessionClickTime' =
                  IF detected = MINING /\ startSessionClickCount[t] > 0
                  THEN [lastStartSessionClickTime EXCEPT ![t] = NoTime]
                  ELSE lastStartSessionClickTime
             /\ TickUpdate(loc, rest,
                           <<"task-status-changed">>
                             \o (IF detected = COMPLETED THEN <<"task-completed">> ELSE <<>>)
                             \o (IF detected = MINING THEN <<"task-mining-started">> ELSE <<>>),
                           status', page)
  /\ UNCHANGED <<tasks, page, view, inits, runVars, CONFIG, batchVars, cycleVars, clockVars,
                 rateVars, totalCompleted, notify, fresh>>

\* the reload of a crashed page and the probe that follows have returned: a
\* page that recovered hands its status to the task.  The probe follows a
\* wait of CrashReloadWait; a reload that throws returns at any time and
\* leaves the task as it is
TickReload(result) ==
  /\ At("tick", "upd_reload")
  /\ LET t == loc["tick"].cur
     IN IF page[t] = "open" /\ result # "crashed"
        THEN /\ \/ lastCrashRefreshTime[t] = NoTime
                \/ now - lastCrashRefreshTime[t] >= CrashReloadWait
             /\ view' = [view EXCEPT ![t] = result]
             /\ crashRefreshCount' = [crashRefreshCount EXCEPT ![t] = 0]
             /\ lastCrashRefreshTime' = [lastCrashRefreshTime EXCEPT ![t] = NoTime]
             /\ status' = [status EXCEPT ![t] = IF result = "mining" THEN MINING
                                                 ELSE IF result = "waiting" THEN COMPLETED
                                                 ELSE INITIALIZING]
             /\ TickUpdate(loc, loc["tick"].list, <<>>, status', page)
        ELSE /\ result = "crashed"
             /\ TickUpdate(loc, loc["tick"].list, <<>>, status, page)
             /\ UNCHANGED <<view, crashRefreshCount, lastCrashRefreshTime, status>>
  /\ UNCHANGED <<tasks, page, timer, miningCycle, hasSubmittedSolution,
                 startSessionClickCount, lastStartSessionClickTime, inits, runVars, CONFIG, batchVars, cycleVars,
                 clockVars, rateVars, statVars, notify, fresh>>

(* ------------------- runbatch.mjs: the rate limiters -------------------- *)
Pages == 1..NumPages

Ops == 1..MaxOps

\* new GlobalRateLimiter({minInterval: m, maxConcurrent: 1}); lastRequestTime
\* starts at 0, the epoch, which the model writes NoTime
GlobalRateLimiter(m) ==
  [minInterval |-> m, lastRequestTime |-> NoTime, activeRequests |-> 0,
   consecutive429Errors |-> 0, last429ErrorTime |-> <<>>, adaptiveInterval |-> m]

\* new ChallengeSubmissionRateLimiter({baseInterval})
ChallengeSubmissionRateLimiter ==
  [baseInterval |-> baseInterval, currentInterval |-> baseInterval,
   consecutive429Errors |-> 0, last429ErrorTime |-> <<>>, successCount |-> 0,
   lastSubmissionTime |-> NoTime, isBlockingForSolution |-> FALSE,
   blockingSolutionPageId |-> 0]

\* the limiters and the pages of runOne before any request
InitLimiters(m) ==
  /\ globalRateLimiter = GlobalRateLimiter(m)
  /\ queue = <<>>
  /\ settled = [o \in Ops |-> "none"]
  /\ started = <<>>
  /\ challengeSubmissionRateLimiter = ChallengeSubmissionRateLimiter
  /\ solution = [p \in Pages |-> "none"]
  /\ challenge = [p \in Pages |-> [pc |-> "none", startWait |-> 0, due |-> 0]]

Least(a, b) == IF a <= b THEN a ELSE b

Greatest(a, b) == IF a >= b THEN a ELSE b

\* GlobalRateLimiter.record429Error
GlobalRateLimiter_record429Error(g) ==
  LET n == g.consecutive429Errors + 1
  IN [g EXCEPT !.consecutive429Errors = n,
               !.last429ErrorTime = <<now>>,
               !.adaptiveInterval = IF n >= 3 THEN Least(g.minInterval * 3, IntervalCap)
                                    ELSE IF n >= 2 THEN g.minInterval * 2
                                    ELSE @]

\* GlobalRateLimiter.recordSuccess
GlobalRateLimiter_recordSuccess(g) ==
  IF /\ g.consecutive429Errors > 0
     /\ g.last429ErrorTime # <<>>
     /\ now - g.last429ErrorTime[1] > RestoreWindow
  THEN [g EXCEPT !.consecutive429Errors = 0, !.adaptiveInterval = g.minInterval]
  ELSE g

\* a releaseSlot that leaves the slot taken
releaseSlotKept(g) == g

\* GlobalRateLimiter.releaseSlot
releaseSlot(g) == [g EXCEPT !.activeRequests = Greatest(0, @ - 1)]

\* GlobalRateLimiter.waitForSlot up to the point where its promise is
\* resolved at once or its timer is set
waitForSlot(g) ==
  LET elapsed == g.lastRequestTime = NoTime
                   \/ now - g.lastRequestTime >= g.adaptiveInterval
      waitTime == IF g.lastRequestTime = NoTime THEN 0
                  ELSE Greatest(0, g.adaptiveInterval - (now - g.lastRequestTime))
  IN IF elapsed /\ g.activeRequests < maxConcurrent
     THEN [g |-> [g EXCEPT !.activeRequests = @ + 1, !.lastRequestTime = now],
           pc |-> "op", due |-> 0]
     ELSE [g |-> g, pc |-> "timer", due |-> now + waitTime]

\* the callback that execute chained to this.queue begins for the first link
\* of q: it calls waitForSlot, and the operation begins when the slot is
\* granted at once
Begin(g, q, st) ==
  IF q = <<>> THEN [g |-> g, q |-> q, started |-> st]
  ELSE LET w == waitForSlot(g)
       IN [g |-> w.g,
           q |-> <<[Head(q) EXCEPT !.pc = w.pc, !.due = w.due]>> \o Tail(q),
           started |-> IF w.pc = "op" THEN Append(st, Head(q).op) ELSE st]

NextOp == Cardinality({o \in Ops : settled[o] # "none"}) + 1

\* GlobalRateLimiter.execute(operation) for an operation of page p (0: a
\* navigation): the callback is chained to this.queue and begins at once
\* when the chain has nothing before it
Chained(p) ==
  LET link == [op |-> NextOp, page |-> p, pc |-> "then", due |-> 0]
  IN IF queue = <<>> THEN Begin(globalRateLimiter, <<link>>, started)
     ELSE [g |-> globalRateLimiter, q |-> Append(queue, link), started |-> started]

execute(p) ==
  /\ NextOp <= MaxOps
  /\ globalRateLimiter' = Chained(p).g
  /\ queue' = Chained(p).q
  /\ started' = Chained(p).started
  /\ settled' = [settled EXCEPT ![NextOp] = "pending"]

\* gotoWithRetry: a navigation is passed to the global limiter
Navigate ==
  /\ execute(0)
  /\ UNCHANGED <<challengeSubmissionRateLimiter, solution, challenge>>
  /\ UNCHANGED <<taskVars, inits, runVars, CONFIG, cycleVars, clockVars, evVars,
                 rateVars, statVars, notify, fresh>>

\* the timer of waitForSlot fires: the slot is taken without a look at
\* activeRequests, and the operation begins
SlotTimer ==
  /\ queue # <<>>
  /\ Head(queue).pc = "timer"
  /\ now >= Head(queue).due
  /\ globalRateLimiter' = [globalRateLimiter EXCEPT !.activeRequests = @ + 1,
                                                     !.lastRequestTime = now]
  /\ queue' = <<[Head(queue) EXCEPT !.pc = "op"]>> \o Tail(queue)
  /\ started' = Append(started, Head(queue).op)
  /\ UNCHANGED <<settled, challengeSubmissionRateLimiter, solution, challenge>>
  /\ UNCHANGED <<taskVars, inits, runVars, CONFIG, cycleVars, clockVars, evVars,
                 rateVars, statVars, notify, fresh>>

\* a navigation that is running sees status 429 and reports it itself
NavigationSees429 ==
  /\ queue # <<>>
  /\ Head(queue).pc = "op"
  /\ Head(queue).page = 0
  /\ globalRateLimiter.consecutive429Errors < Max429
  /\ globalRateLimiter' = GlobalRateLimiter_record429Error(globalRateLimiter)
  /\ UNCHANGED <<queue, settled, started, challengeSubmissionRateLimiter, solution,
                 challenge>>
  /\ UNCHANGED <<taskVars, inits, runVars, CONFIG, cycleVars, clockVars, evVars,
                 rateVars, statVars, notify, fresh>>

\* the operation of the first link settles: resolved ("ok"), rejected with a
\* message that contains 429, or rejected otherwise; the slot is released and
\* the callback of the next link begins.  route.continue() of a solution
\* request resolves, and the request is on its way
OpSettles(result) ==
  /\ queue # <<>>
  /\ Head(queue).pc = "op"
  /\ Head(queue).page # 0 => result = "ok"
  /\ result = "429" => globalRateLimiter.consecutive429Errors < Max429
  /\ LET g == IF result = "ok" THEN GlobalRateLimiter_recordSuccess(globalRateLimiter)
              ELSE IF result = "429" THEN GlobalRateLimiter_record429Error(globalRateLimiter)
              ELSE globalRateLimiter
         b == Begin(releaseSlot(g), Tail(queue), started)
     IN /\ globalRateLimiter' = b.g
        /\ queue' = b.q
        /\ started' = b.started
  /\ settled' = [settled EXCEPT ![Head(queue).op] = IF result = "ok" THEN "resolved"
                                                    ELSE "rejected"]
  /\ solution' = IF Head(queue).page # 0
                 THEN [solution EXCEPT ![Head(queue).page] = "sent"] ELSE solution
  /\ UNCHANGED <<challengeSubmissionRateLimiter, challenge>>
  /\ UNCHANGED <<taskVars, inits, runVars, CONFIG, cycleVars, clockVars, evVars,
                 rateVars, statVars, notify, fresh>>

\* ChallengeSubmissionRateLimiter.startBlockingForSolution
startBlockingForSolution(c, pageId) ==
  [c EXCEPT !.isBlockingForSolution = TRUE, !.blockingSolutionPageId = pageId]

\* ChallengeSubmissionRateLimiter.stopBlockingForSolution
stopBlockingForSolution(c) ==
  IF c.isBlockingForSolution
  THEN [c EXCEPT !.isBlockingForSolution = FALSE, !.blockingSolutionPageId = 0]
  ELSE c

\* ChallengeSubmissionRateLimiter.shouldBlockChallenge
shouldBlockChallenge == challengeSubmissionRateLimiter.isBlockingForSolution

\* ChallengeSubmissionRateLimiter.recordSuccess
ChallengeSubmissionRateLimiter_recordSuccess(c) ==
  LET n == c.successCount + 1
      lowered == Greatest((c.currentInterval * 9) \div 10, c.baseInterval)
  IN IF /\ c.consecutive429Errors > 0
        /\ (c.last429ErrorTime = <<>> \/ now - c.last429ErrorTime[1] > RecoverAfter)
        /\ n >= successThreshold
     THEN [c EXCEPT !.successCount = 0,
                    !.currentInterval = lowered,
                    !.consecutive429Errors = IF lowered <= c.baseInterval THEN 0 ELSE @]
     ELSE [c EXCEPT !.successCount = n]

\* the route handler of POST /api/solution on page p: the challenge requests
\* are blocked and route.continue() is passed to the global limiter
SolutionRoute(p) ==
  /\ solution[p] = "none"
  /\ execute(p)
  /\ challengeSubmissionRateLimiter' =
       startBlockingForSolution(challengeSubmissionRateLimiter, p)
  /\ solution' = [solution EXCEPT ![p] = "queued"]
  /\ UNCHANGED challenge
  /\ UNCHANGED <<taskVars, inits, runVars, CONFIG, cycleVars, clockVars, evVars,
                 rateVars, statVars, notify, fresh>>

\* the response handler of page p for POST /api/solution with status 200:
\* the blocking is lifted and the success is recorded.  The pages are those
\* of runOne(task) as the batch runner of line 6887 calls it, with scheduler
\* null, so that no recordSubmitSolution is made
SolutionResponse(p) ==
  /\ solution[p] = "sent"
  /\ challengeSubmissionRateLimiter' =
       ChallengeSubmissionRateLimiter_recordSuccess(
         stopBlockingForSolution(challengeSubmissionRateLimiter))
  /\ solution' = [solution EXCEPT ![p] = "none"]
  /\ UNCHANGED <<globalRateLimiter, queue, settled, started, challenge>>
  /\ UNCHANGED <<taskVars, inits, runVars, CONFIG, cycleVars, clockVars, evVars,
                 rateVars, statVars, notify, fresh>>

\* waitForNextSubmission up to its timer
Paced(c) ==
  IF c.lastSubmissionTime = NoTime THEN now
  ELSE now + Greatest(0, c.currentInterval - (now - c.lastSubmissionTime))

\* the route handler of GET /api/challenge on page p: the request waits while
\* the blocking is on, and goes to waitForNextSubmission otherwise
ChallengeRoute(p) ==
  /\ challenge[p].pc = "none"
  /\ challenge' = [challenge EXCEPT ![p] =
                     IF shouldBlockChallenge
                     THEN [pc |-> "blocked", startWait |-> now, due |-> 0]
                     ELSE [pc |-> "pacing", startWait |-> 0,
                           due |-> Paced(challengeSubmissionRateLimiter)]]
  /\ UNCHANGED <<globalRateLimiter, queue, settled, started,
                 challengeSubmissionRateLimiter, solution>>
  /\ UNCHANGED <<taskVars, inits, runVars, CONFIG, cycleVars, clockVars, evVars,
                 rateVars, statVars, notify, fresh>>

\* the waiting loop of the challenge request of page p ends: the blocking is
\* off, or maxWait has passed
ChallengeUnblocked(p) ==
  /\ challenge[p].pc = "blocked"
  /\ ~shouldBlockChallenge \/ now - challenge[p].startWait >= maxWait
  /\ challenge' = [challenge EXCEPT ![p] =
                     [pc |-> "pacing", startWait |-> 0,
                      due |-> Paced(challengeSubmissionRateLimiter)]]
  /\ UNCHANGED <<globalRateLimiter, queue, settled, started,
                 challengeSubmissionRateLimiter, solution>>
  /\ UNCHANGED <<taskVars, inits, runVars, CONFIG, cycleVars, clockVars, evVars,
                 rateVars, statVars, notify, fresh>>

\* waitForNextSubmission returns and route.continue() releases the request
ChallengeContinue(p) ==
  /\ challenge[p].pc = "pacing"
  /\ now >= challenge[p].due
  /\ challengeSubmissionRateLimiter' =
       [challengeSubmissionRateLimiter EXCEPT !.lastSubmissionTime = now]
  /\ challenge' = [challenge EXCEPT ![p] = [pc |-> "none", startWait |-> 0, due |-> 0]]
  /\ UNCHANGED <<globalRateLimiter, queue, settled, started, solution>>
  /\ UNCHANGED <<taskVars, inits, runVars, CONFIG, cycleVars, clockVars, evVars,
                 rateVars, statVars, notify, fresh>>

RunBatch ==
  \/ Navigate
  \/ SlotTimer
  \/ NavigationSees429
  \/ \E result \in {"ok", "429", "error"} : OpSettles(result)
  \/ \E p \in Pages :
       \/ SolutionRoute(p)
       \/ SolutionResponse(p)
       \/ ChallengeRoute(p)
       \/ ChallengeUnblocked(p)
       \/ ChallengeContinue(p)

(* ------------------------------- start --------------------------------- *)
\* the scheduler as constructed under the configuration cfg, with n tasks
\* registered by addTask
InitScheduler(cfg, n) ==
  /\ tasks = 1..n
  /\ status = [t \in TaskIds |-> PENDING]
  /\ page = [t \in TaskIds |-> "none"]
  /\ view = [t \in TaskIds |-> "start"]
  /\ timer = [t \in TaskIds |-> "none"]
  /\ miningCycle = [t \in TaskIds |-> <<>>]
  /\ hasSubmittedSolution = [t \in TaskIds |-> FALSE]
  /\ crashRefreshCount = [t \in TaskIds |-> 0]
  /\ lastCrashRefreshTime = [t \in TaskIds |-> NoTime]
  /\ startSessionClickCount = [t \in TaskIds |-> 0]
  /\ lastStartSessionClickTime = [t \in TaskIds |-> NoTime]
  /\ inits = [t \in TaskIds |-> [k \in 1..MaxInitCalls |-> "idle"]]
  /\ isRunning = FALSE
  /\ intervalId = FALSE
  /\ sharedBrowser = "none"
  /\ duplicateWarnings = 0
  /\ lastHealthCheckTime = <<>>
  /\ CONFIG = cfg
  /\ cycle = 0
  /\ cycleHour = <<>>
  /\ hour = 0
  /\ now = 0
  /\ pendingEvents = <<>>
  /\ isProcessingEvents = FALSE
  /\ evBatch = <<>>
  /\ loc = [p \in Procs |-> NullLoc]
  /\ consecutive429Errors = 0
  /\ pauseUntil = 0
  /\ failed = 0
  /\ submitSolution = 0
  /\ cycleSubmitSolution = 0
  /\ totalCompleted = 0
  /\ notify = [t \in TaskIds |-> "none"]
  /\ fresh = FALSE

\* the scheduler and the module state of runbatch.mjs as loaded
InitWith(cfg, n) == InitScheduler(cfg, n) /\ InitLimiters(DefaultMinInterval)

Init == InitWith(ConfigSmall, NumTasks)

\* start(): the scheduler runs, the shared browser is launched, the first
\* page-closed is raised, the interval timer is armed and schedule() is called
\* for the first time, whose cycle check notes the hour.  A scheduler that
\* has been stopped is not started again.
Start ==
  /\ ~isRunning
  /\ loc["stop"].pc = "idle"
  /\ isRunning' = TRUE
  /\ sharedBrowser' = "open"
  /\ intervalId' = TRUE
  /\ cycleHour' = IF RESET_AT_HOUR THEN <<hour>> ELSE <<>>
  /\ evBatch' = <<"page-closed">>
  /\ pendingEvents' = <<>>
  /\ isProcessingEvents' = TRUE
  /\ loc' = [loc EXCEPT !["ev"] = [NullLoc EXCEPT !.pc = "sync", !.depth = 1],
                        !["tick"] = [NullLoc EXCEPT !.pc = "main"]]
  /\ UNCHANGED <<taskVars, inits, duplicateWarnings, lastHealthCheckTime, CONFIG, batchVars, cycle,
                 clockVars, rateVars,
                 statVars, notify, fresh>>

(* ------------------------- addTask and getStatus ----------------------- *)
\* a registration that replaces the entry of an id already present
addTaskOverwrite(id) ==
  /\ ~Urgent
  /\ id \in tasks \/ id = Cardinality(tasks) + 1
  /\ tasks' = tasks \cup {id}
  /\ status' = [status EXCEPT ![id] = PENDING]
  /\ page' = [page EXCEPT ![id] = "none"]
  /\ miningCycle' = [miningCycle EXCEPT ![id] = <<>>]
  /\ hasSubmittedSolution' = [hasSubmittedSolution EXCEPT ![id] = FALSE]
  /\ crashRefreshCount' = [crashRefreshCount EXCEPT ![id] = 0]
  /\ lastCrashRefreshTime' = [lastCrashRefreshTime EXCEPT ![id] = NoTime]
  /\ startSessionClickCount' = [startSessionClickCount EXCEPT ![id] = 0]
  /\ lastStartSessionClickTime' = [lastStartSessionClickTime EXCEPT ![id] = NoTime]
  /\ UNCHANGED <<view, timer, inits, runVars, CONFIG, batchVars, cycleVars, clockVars, evVars,
                 rateVars, statVars, notify, fresh>>

\* addTask(id): an id already present is refused with a warning; a new id
\* (ids are given out in ascending order) gets a Pending entry without a page
addTask(id) ==
  /\ ~Urgent
  /\ IF id \in tasks
     THEN /\ duplicateWarnings < MaxWarnings
          /\ duplicateWarnings' = duplicateWarnings + 1
          /\ UNCHANGED <<taskVars, inits, isRunning, intervalId, sharedBrowser,
                         lastHealthCheckTime, CONFIG, batchVars,
                         cycleVars, clockVars, evVars, rateVars, statVars, notify, fresh>>
     ELSE /\ id = Cardinality(tasks) + 1
          /\ tasks' = tasks \cup {id}
          /\ status' = [status EXCEPT ![id] = PENDING]
          /\ page' = [page EXCEPT ![id] = "none"]
          /\ miningCycle' = [miningCycle EXCEPT ![id] = <<>>]
          /\ hasSubmittedSolution' = [hasSubmittedSolution EXCEPT ![id] = FALSE]
          /\ crashRefreshCount' = [crashRefreshCount EXCEPT ![id] = 0]
          /\ lastCrashRefreshTime' = [lastCrashRefreshTime EXCEPT ![id] = NoTime]
          /\ startSessionClickCount' = [startSessionClickCount EXCEPT ![id] = 0]
          /\ lastStartSessionClickTime' = [lastStartSessionClickTime EXCEPT ![id] = NoTime]
          /\ UNCHANGED <<view, timer, inits, runVars, CONFIG, batchVars, cycleVars, clockVars, evVars,
                         rateVars, statVars, notify, fresh>>

\* getStatus(): the snapshot is built from getActiveMiningCount, from
\* getOpenPagesCount, which clears the references to closed pages, and from
\* a walk over the tasks that writes nothing
getStatus ==
  /\ ~Urgent
  /\ page' = clearClosedPages(status, page)
  /\ UNCHANGED <<tasks, status, view, timer, attrVars, inits, runVars, CONFIG, batchVars, cycleVars,
                 clockVars, evVars, rateVars, statVars, notify, fresh>>

(* -------------------------------- stop --------------------------------- *)
\* the loop of stop() over the tasks lst: closeTask of a task without a page
\* reference returns without waiting, and the loop stands at the first task
\* whose context has to be closed
RECURSIVE StopRun(_, _, _)
StopRun(lst, st, pg) ==
  IF lst = <<>> THEN [st |-> st, rest |-> <<>>]
  ELSE IF pg[Head(lst)] # "none" THEN [st |-> st, rest |-> lst]
  ELSE StopRun(Tail(lst), [st EXCEPT ![Head(lst)] = IF @ = PENDING THEN PENDING ELSE CLOSED],
               pg)

\* where stop() stands after the loop has gone on over lst
StopNextTask(l, lst, pg) ==
  IF lst # <<>>
  THEN [Goto(l, "stop", "stop_close", lst) EXCEPT !["stop"].had = (pg[Head(lst)] = "open")]
  ELSE [l EXCEPT !["stop"].pc = IF sharedBrowser = "open" THEN "stop_browser" ELSE "done"]

\* stop(): the scheduler no longer runs, the interval timer is cleared, and
\* the tasks are closed one after the other
Stop ==
  /\ ~Urgent
  /\ isRunning
  /\ loc["stop"].pc = "idle"
  /\ isRunning' = FALSE
  /\ intervalId' = FALSE
  /\ LET r == StopRun(Ascending(tasks), status, page)
     IN /\ status' = r.st
        /\ loc' = StopNextTask(loc, r.rest, page)
  /\ UNCHANGED <<tasks, page, view, timer, attrVars, inits, sharedBrowser, duplicateWarnings,
                 lastHealthCheckTime,
                 CONFIG, batchVars, cycleVars, clockVars, pendingEvents, isProcessingEvents, evBatch,
                 rateVars, statVars, notify, fresh>>

\* closeTask of stop() returns; its page-closed is not raised any more
StopClose ==
  /\ At("stop", "stop_close")
  /\ LET t == loc["stop"].cur
         pg == [page EXCEPT ![t] = "none"]
         r == StopRun(loc["stop"].list,
                      [status EXCEPT ![t] = IF @ = PENDING THEN PENDING ELSE CLOSED], pg)
     IN /\ page' = pg
        /\ status' = r.st
        /\ triggerEvent(StopNextTask(loc, r.rest, pg),
                        IF loc["stop"].had THEN <<"page-closed">> ELSE <<>>)
  /\ UNCHANGED <<tasks, view, timer, attrVars, inits, runVars, CONFIG, batchVars, cycleVars,
                 clockVars, rateVars, statVars, notify, fresh>>

\* sharedBrowser.close() returns: the pages that were still open are closed
\* with the browser, their references stay
StopBrowser ==
  /\ At("stop", "stop_browser")
  /\ sharedBrowser' = "none"
  /\ page' = [t \in TaskIds |-> IF page[t] = "open" THEN "stale" ELSE page[t]]
  /\ loc' = [loc EXCEPT !["stop"].pc = "done"]
  /\ UNCHANGED <<tasks, status, view, timer, attrVars, inits, isRunning, intervalId,
                 duplicateWarnings, lastHealthCheckTime, CONFIG, batchVars, cycleVars, clockVars, pendingEvents,
                 isProcessingEvents, evBatch, rateVars, statVars, notify, fresh>>

(* --------------------------- the environment --------------------------- *)
\* the page of a mining task submits its solution and waits for the next
\* challenge; when the driver sees the accepted submission (seen) its
\* response handler is due ("sent") and later has run ("handled")
PageCompletes(t, seen) ==
  /\ ~Urgent
  /\ page[t] = "open"
  /\ view[t] = "mining"
  /\ notify[t] # "sent"
  /\ submitSolution + 2 <= MaxSubmit
  /\ view' = [view EXCEPT ![t] = "waiting"]
  /\ notify' = [notify EXCEPT ![t] = IF seen THEN "sent" ELSE "none"]
  /\ UNCHANGED <<tasks, status, page, timer, attrVars, inits, runVars, CONFIG, batchVars,
                 cycleVars, clockVars, evVars, rateVars, statVars, fresh>>

\* the response handler of the driver calls recordSubmitSolution(taskId)
recordSubmitSolution(t) ==
  /\ ~Urgent
  /\ notify[t] = "sent"
  /\ notify' = [notify EXCEPT ![t] = "handled"]
  /\ submitSolution' = submitSolution + 1
  /\ cycleSubmitSolution' = cycleSubmitSolution + 1
  /\ hasSubmittedSolution' = [hasSubmittedSolution EXCEPT ![t] = TRUE]
  /\ UNCHANGED <<tasks, status, page, view, timer, miningCycle, crashRefreshCount,
                 lastCrashRefreshTime, startSessionClickCount, lastStartSessionClickTime, inits, runVars,
                 CONFIG, batchVars, cycleVars, clockVars, evVars, rateVars, failed,
                 totalCompleted, fresh>>

\* the renderer of an open page crashes
PageCrashes(t) ==
  /\ ~Urgent
  /\ page[t] = "open"
  /\ view[t] # "crashed"
  /\ view' = [view EXCEPT ![t] = "crashed"]
  /\ UNCHANGED <<tasks, status, page, timer, attrVars, inits, runVars, CONFIG, batchVars,
                 cycleVars, clockVars, evVars, rateVars, statVars, notify, fresh>>

\* a page that shows the start button begins to mine without a click of the
\* scheduler (the site resumes the session)
PageStartsMining(t) ==
  /\ ~Urgent
  /\ page[t] = "open"
  /\ view[t] = "start"
  /\ view' = [view EXCEPT ![t] = "mining"]
  /\ UNCHANGED <<tasks, status, page, timer, attrVars, inits, runVars, CONFIG, batchVars,
                 cycleVars, clockVars, evVars, rateVars, statVars, notify, fresh>>

\* the page of a task goes somewhere else: back to the wallet step of the
\* wizard, to another URL, or to a mining page without its status text
NavViews == {"wallet", "other", "stoponly", "blank"}

PageNavigates(t, v) ==
  /\ ~Urgent
  /\ page[t] = "open"
  /\ view[t] \notin {v, "crashed"}
  /\ view' = [view EXCEPT ![t] = v]
  /\ UNCHANGED <<tasks, status, page, timer, attrVars, inits, runVars, CONFIG, batchVars,
                 cycleVars, clockVars, evVars, rateVars, statVars, notify, fresh>>

\* the page of a task is closed on the driver side (by the site or by the
\* browser) while no callback of the scheduler is suspended; task.page keeps
\* referring to it
PageCloses(t) ==
  /\ ~Urgent
  /\ \A p \in Procs : loc[p].pc \in {"idle", "done"}
  /\ page[t] = "open"
  /\ page' = [page EXCEPT ![t] = "stale"]
  /\ UNCHANGED <<tasks, status, view, timer, attrVars, inits, runVars, CONFIG, batchVars,
                 cycleVars, clockVars, evVars, rateVars, statVars, notify, fresh>>

\* the wall clock
Advance ==
  /\ ~Urgent
  /\ now < MaxNow
  /\ now' = now + TimeStep
  /\ UNCHANGED <<taskVars, inits, runVars, CONFIG, batchVars, cycleVars, hour, evVars, rateVars,
                 statVars, notify, fresh>>

HourPasses ==
  /\ ~Urgent
  /\ hour < MaxHours
  /\ hour' = hour + 1
  /\ UNCHANGED <<taskVars, inits, runVars, CONFIG, batchVars, cycleVars, now, evVars, rateVars,
                 statVars, notify, fresh>>

(* ---------------------------- specifications --------------------------- *)
\* the steps every run of the scheduler takes: start, admission, a driver
\* that succeeds, the start clicks, the probes of the enforcement, the tick
Core ==
  \/ Start
  \/ tryStartNewTaskAfterClose
  \/ \E t \in TaskIds, k \in 1..MaxInitCalls : InitRunOk(t, k)
  \/ OnTaskInitialized
  \/ OnTaskStatusChanged
  \/ OnTaskMiningStarted
  \/ \E p \in Procs : ClickEval(p, "mining") \/ ClickWait(p) \/ EnforceProbe(p)
  \/ TickStart
  \/ TickMain
  \/ TickDetect
  \/ TickHealth

Completion ==
  \/ \E t \in TaskIds : PageCompletes(t, FALSE)
  \/ OnTaskCompleted
  \/ closeCompletedTasks

Stops ==
  \E p \in Procs :
    \/ \E clicked \in BOOLEAN : EnforceStopClick(p, clicked)
    \/ \E stopped \in BOOLEAN : EnforceStopped(p, stopped)
    \/ EnforceClose(p)

HardReset ==
  \/ HourPasses
  \/ HardResetClose

Cleanup == \E n \in 1..2 : ForceClose(n) \/ ForceReset(n)

Crashes ==
  \/ \E t \in TaskIds : PageCrashes(t)
  \/ \E result \in {"crashed", "start"} : TickReload(result)
  \/ TickCrashReset
  \/ OnTaskError
  \/ handleErrorTasks
  \/ Advance

Stopping ==
  \/ Stop
  \/ StopClose
  \/ StopBrowser
  \/ \E t \in TaskIds, k \in 1..MaxInitCalls : InitLaunched(t, k)

SoftReset ==
  \/ SoftResetStart
  \/ SoftResetClose
  \/ SoftResetSweep

\* the scheduler with every operation and every behaviour of its environment
Next ==
  \/ Core
  \/ SoftReset
  \/ \E t \in TaskIds, k \in 1..MaxInitCalls, is429Error \in BOOLEAN : InitRunFail(t, k, is429Error)
  \/ \E p \in Procs : ClickEval(p, "start")
  \/ Completion
  \/ \E t \in TaskIds : PageCompletes(t, TRUE) \/ recordSubmitSolution(t)
  \/ Stops
  \/ HardReset
  \/ Cleanup
  \/ Crashes
  \/ TickErrorTask
  \/ \E t \in TaskIds, v \in NavViews : PageNavigates(t, v)
  \/ Stopping
  \/ \E id \in TaskIds : addTask(id)
  \/ getStatus
  \/ \E t \in TaskIds : PageCloses(t)
  \/ \E outcome \in {"healthy", "recovered", "lost"} : TickHealthTask(outcome)
  \/ TickReload("mining")
  \/ \E p \in Procs : ClickStuck(p)
  \/ RunBatch

Spec == Init /\ [][Next]_vars

\* admission under the small configuration: three tasks, pages that mine and
\* complete, the hourly hard reset, the forced cleanup
NextAdmission == Core \/ Completion \/ HardReset \/ Cleanup

SpecAdmission == InitWith(ConfigSmall, NumTasks) /\ [][NextAdmission]_vars

\* enforcement of the mining ceiling under the wide configuration: three
\* tasks, two drivers at a time, stop clicks that succeed or fail
NextEnforce == Core \/ Stops

SpecEnforce == InitWith(ConfigWide, NumTasks) /\ [][NextEnforce]_vars

\* the soft reset under the small configuration with RESET_AT_HOUR off: two
\* tasks, pages that may start mining by themselves, resetCycle called at will
NextSoft == Core \/ SoftReset \/ (\E t \in TaskIds : PageStartsMining(t))

SpecSoft == InitWith(ConfigSoft, NumTasks - 1) /\ [][NextSoft]_vars

\* submitted solutions under the small configuration: two tasks whose pages
\* complete, seen or not by the driver's response handler
NextNotify ==
  \/ Core
  \/ OnTaskCompleted
  \/ closeCompletedTasks
  \/ \E t \in TaskIds, seen \in BOOLEAN : PageCompletes(t, seen)
  \/ \E t \in TaskIds : recordSubmitSolution(t)

SpecNotify == InitWith(ConfigSmall, NumTasks - 1) /\ [][NextNotify]_vars

\* the breaker under the small configuration: two tasks whose drivers fail,
\* throttled or not, while the wall clock advances
NextPause ==
  \/ Core
  \/ \E t \in TaskIds, k \in 1..MaxInitCalls, is429Error \in BOOLEAN :
       InitRunFail(t, k, is429Error)
  \/ Advance

SpecPause == InitWith(ConfigSmall, NumTasks - 1) /\ [][NextPause]_vars

\* crashes under the small configuration: one task whose page crashes and
\* is reloaded
NextCrash == Core \/ Crashes

SpecCrash == InitWith(ConfigSmall, NumTasks - 2) /\ [][NextCrash]_vars

\* status detection under the small configuration: one task whose page may
\* leave the mining page
NextDetect == Core \/ (\E t \in TaskIds, v \in NavViews : PageNavigates(t, v))

SpecDetect == InitWith(ConfigSmall, NumTasks - 2) /\ [][NextDetect]_vars

\* stop() under the wide configuration: three tasks, two drivers at a time,
\* a scheduler that is stopped at any moment
NextStop == Core \/ Stopping

SpecStop == InitWith(ConfigWide, NumTasks) /\ [][NextStop]_vars

\* the calls of the embedding program under the small configuration: one
\* task registered before start(), the others at any moment, ids registered
\* twice, snapshots taken at any moment, pages closed by the driver
NextApi ==
  \/ Core
  \/ \E id \in TaskIds : addTask(id)
  \/ getStatus
  \/ \E t \in TaskIds : PageCloses(t)

SpecApi == InitWith(ConfigSmall, 1) /\ [][NextApi]_vars

\* the event pass under the loose configuration, with the progress the
\* runtime gives it: a driver call awaited by a handler returns and the
\* handler is resumed (the steps of the pass are disabled only while another
\* callback runs its microtasks, hence strong fairness), and the microtasks
\* of a tick that has started run to their first awaited call
EvStep ==
  \/ tryStartNewTaskAfterClose
  \/ OnTaskInitialized
  \/ OnTaskStatusChanged
  \/ OnTaskMiningStarted
  \/ ClickEval("ev", "mining")
  \/ ClickWait("ev")
  \/ EnforceProbe("ev")

SpecLive ==
  /\ InitWith(ConfigLoose, NumTasks - 1)
  /\ [][Core]_vars
  /\ SF_vars(EvStep)
  /\ WF_vars(TickMain)
  /\ WF_vars(TickHealth)

\* soft mode while the wall clock passes an hour boundary
NextSoftHour == NextSoft \/ HourPasses

SpecSoftHour == InitWith(ConfigSoft, NumTasks - 1) /\ [][NextSoftHour]_vars

\* start clicks that stay without effect, the wall clock, and the tick's
\* handling of the Error tasks it finds
NextStuck ==
  \/ Core
  \/ \E p \in Procs : ClickEval(p, "start")
  \/ Advance
  \/ TickErrorTask

SpecStuck == InitWith(ConfigSmall, NumTasks - 2) /\ [][NextStuck]_vars

\* the Error tasks and the sweeps that reset them, with pages that may be
\* closed on the driver side.  The interval timer keeps calling schedule(),
\* and a driver call awaited by the tick or by a handler of the event pass
\* returns, so both callbacks make progress; their steps are disabled while
\* the other callback runs its microtasks, hence strong fairness
NextSweep == NextStuck \/ (\E t \in TaskIds : PageCloses(t))

TickStep ==
  \/ TickStart
  \/ TickMain
  \/ TickDetect
  \/ TickHealth
  \/ TickErrorTask
  \/ \E effect \in {"mining", "start"} : ClickEval("tick", effect)
  \/ ClickWait("tick")
  \/ EnforceProbe("tick")

PassStep ==
  \/ EvStep
  \/ ClickEval("ev", "start")

SpecSweep ==
  /\ InitWith(ConfigSmall, NumTasks - 2)
  /\ [][NextSweep]_vars
  /\ SF_vars(TickStep)
  /\ SF_vars(PassStep)
  /\ WF_vars(\E t \in TaskIds, k \in 1..MaxInitCalls : InitRunOk(t, k))

\* the breaker when two initializations can be in flight side by side
SpecTrip == InitWith(ConfigWide, NumTasks - 1) /\ [][NextPause]_vars

(* ------------------------------- claims -------------------------------- *)
\* C1: whenever an admission pass (tryStartNewTaskAfterClose) returns, the
\* open-page count is at most MAX_OPEN_PAGES.
C1_OpenPagesAfterAdmission ==
  [][tryStartNewTaskAfterClose => getOpenPagesCount' <= MAX_OPEN_PAGES]_vars

\* process p is inside checkAndEnforceActiveMiningLimit
EnforcePcs == {"enf_probe", "enf_stop", "enf_stopped", "enf_close"}

\* the open pages a probe would report as mining
ProbedMining == Cardinality({t \in tasks : page[t] = "open" /\ view[t] = "mining"})

\* C2: whenever the enforcement of the mining ceiling returns, in the event
\* pass or at the end of the tick, at most MAX_ACTIVE_MINING open pages are
\* mining.
C2_MiningCeilingAfterEnforce ==
  [][\A p \in Procs :
       loc[p].pc \in EnforcePcs /\ loc'[p].pc \notin EnforcePcs
         => ProbedMining' <= MAX_ACTIVE_MINING]_vars

\* C3: from the end of a hard reset until an admission pass promotes a task,
\* every task is Pending and no page is open.
C3_HardResetClearsAll ==
  fresh => /\ \A t \in tasks : status[t] = PENDING /\ page[t] = "none"
           /\ getOpenPagesCount = 0

\* C10: when clickStopSession returns true for an excess task, the task is
\* Initializing and its page is still open.
C10_StopKeepsPage ==
  [][\A p \in Procs :
       loc[p].pc = "enf_stopped" /\ loc'[p].pc \notin {"enf_stopped", "enf_close"}
         => /\ status'[loc[p].cur] = INITIALIZING
            /\ page'[loc[p].cur] = "open"]_vars

\* the tick's slot is inside the soft branch of resetCycle
SoftPcs == {"soft_close", "soft_sweep"}

\* the Mining tasks with an open page, with their miningCycle, at the
\* beginning of the soft reset that is running or about to run
ResetEntry ==
  IF loc["tick"].pc \in SoftPcs THEN loc["tick"].entry
  ELSE {<<t, miningCycle[t]>> : t \in {u \in tasks : status[u] = MINING /\ page[u] = "open"}}

\* this step is the return of a soft reset
SoftResetReturns ==
  /\ SoftResetStart \/ loc["tick"].pc \in SoftPcs
  /\ loc'["tick"].pc \notin SoftPcs

\* C4: when a soft reset with outgoing cycle c returns, a task that was
\* Mining with an open page at its beginning is still Mining with its page
\* if its miningCycle was c, and is Pending if its miningCycle was below c,
\* 0 included.
C4_SoftResetByMiningCycle ==
  [][SoftResetReturns =>
       \A e \in ResetEntry :
         e[2] # <<>> =>
           /\ e[2][1] = cycle' - 1 => status'[e[1]] = MINING /\ page'[e[1]] = "open"
           /\ e[2][1] < cycle' - 1 => status'[e[1]] = PENDING]_vars

\* C5: a completion detected by the tick for a task whose
\* hasSubmittedSolution is already true leaves submitSolution and
\* cycleSubmitSolution as they are.
C5_TickCreditsOnce ==
  [][TickDetect /\ hasSubmittedSolution[loc["tick"].cur]
       => UNCHANGED <<submitSolution, cycleSubmitSolution>>]_vars

\* the handler of the driver has run for t, the tick has detected t
\* Completed afterwards, and one solution is counted
C5_Witness ==
  \E t \in tasks :
    /\ notify[t] = "handled"
    /\ status[t] = COMPLETED
    /\ hasSubmittedSolution[t]
    /\ \A u \in tasks \ {t} : ~hasSubmittedSolution[u]
    /\ submitSolution = 1
    /\ cycleSubmitSolution = 1

\* C6: a notification (recordSubmitSolution) for a task whose
\* hasSubmittedSolution is already true credits nothing.
C6_NotificationCreditsOnce ==
  [][\A t \in tasks : recordSubmitSolution(t) /\ hasSubmittedSolution[t]
       => UNCHANGED <<submitSolution, cycleSubmitSolution>>]_vars

\* the admission pause is in force
PauseActive == pauseUntil # 0 /\ now < pauseUntil

\* C7: the Throttled signal that brings the run of consecutive ones to
\* maxConsecutive429Errors or beyond leaves the pause active, and an admission
\* pass run while the pause is active promotes no task and changes no status.
C7_PauseStopsAdmission ==
  [][/\ consecutive429Errors' > consecutive429Errors
          /\ consecutive429Errors' >= maxConsecutive429Errors
        => PauseActive'
     /\ tryStartNewTaskAfterClose /\ PauseActive
        => status' = status /\ inits' = inits]_vars

\* the pause is active after maxConsecutive429Errors Throttled signals, the
\* admission pass raised by the last failure has run, and every task is
\* still Pending with no driver at work
C7_Witness ==
  /\ PauseActive
  /\ consecutive429Errors >= maxConsecutive429Errors
  /\ loc["ev"].pc = "idle"
  /\ pendingEvents = <<>>
  /\ \A t \in tasks : status[t] = PENDING /\ \A k \in 1..MaxInitCalls : inits[t][k] = "idle"

\* the tasks whose status is Initializing
InitializingTasks(st) == {t \in tasks : st[t] = INITIALIZING}

\* the promoted tasks that have neither been closed nor failed to initialize
HoldingTasks == {t \in tasks : status[t] \in {INITIALIZING, MINING, COMPLETED, WAITING_CLOSE}}

C9_CrashCountsOneFailure ==
  [][/\ TickDetect /\ status'[loc["tick"].cur] = ERROR
        => crashRefreshCount[loc["tick"].cur] = CrashRefreshLimit
     /\ TickCrashReset
        => /\ status'[loc["tick"].cur] = PENDING
           /\ failed' = loc["tick"].base + 1]_vars

\* the status a second application of status detection would record for
\* each task: detectTaskStatus, then the update of the tick
DetectAgain == [t \in TaskIds |-> recordedStatus(status, t, detectTaskStatus(t))]

\* C11: when the tick has applied status detection to a task whose page is
\* open and not crashed, a second application on the same page state
\* records the status the first one left.
C11_DetectIdempotent ==
  [][(TickDetect /\ page[loc["tick"].cur] = "open" /\ view[loc["tick"].cur] # "crashed")
       => DetectAgain'[loc["tick"].cur] = status'[loc["tick"].cur]]_vars

\* C12: stop() calls sharedBrowser.close() only when no task holds an open
\* page, and once stop() has returned the interval timer is cleared and no
\* task holds an open page.
C12_StopReleasesAll ==
  [][/\ (loc["stop"].pc # "stop_browser" /\ loc'["stop"].pc = "stop_browser")
          => (\A t \in tasks : page'[t] # "open")
     /\ (loc'["stop"].pc = "done")
          => (~intervalId' /\ \A t \in tasks : page'[t] # "open")]_vars

\* C13: addTask with an id already present leaves the task table as it is:
\* no task is added and no field of a task changes.
C13_DuplicateAddIsNoOp ==
  [][\A id \in TaskIds :
       (addTask(id) /\ id \in tasks) => UNCHANGED <<taskVars, inits>>]_vars

\* an id has been registered a second time while a task has left Pending,
\* and the table holds every task
C13_Witness ==
  /\ duplicateWarnings > 0
  /\ Cardinality(tasks) = NumTasks
  /\ \E t \in tasks : status[t] = MINING /\ page[t] = "open"

\* C14: getStatus() changes no task's status or page reference, nor the
\* breaker, the pending events or the counters.
C14_GetStatusReadsOnly ==
  [][getStatus => UNCHANGED <<status, page, rateVars, pendingEvents, statVars>>]_vars

\* the status edges of the task state machine that need no further condition
StatusEdges ==
  {<<PENDING, INITIALIZING>>, <<INITIALIZING, MINING>>, <<INITIALIZING, COMPLETED>>,
   <<MINING, COMPLETED>>, <<MINING, INITIALIZING>>, <<MINING, CLOSED>>,
   <<COMPLETED, CLOSED>>, <<WAITING_CLOSE, CLOSED>>, <<ERROR, PENDING>>}

\* C15: every change of a task's status is an edge of the state machine: one
\* of StatusEdges, or any status to Error once the crash refreshes are
\* exhausted, or any status to Pending when an initialization fails; no tick
\* records Mining to Pending or Completed to Mining.
C15_OnlyListedEdges ==
  [][\A t \in tasks :
       status'[t] # status[t] =>
         \/ <<status[t], status'[t]>> \in StatusEdges
         \/ status'[t] = ERROR /\ crashRefreshCount[t] >= CrashRefreshLimit
         \/ /\ status'[t] = PENDING
            /\ \E k \in 1..MaxInitCalls, is429Error \in BOOLEAN : InitRunFail(t, k, is429Error)]_vars

\* C16: a task whose status is Pending, Closed or Error holds no open page.
C16_IdleTaskHoldsNoPage ==
  \A t \in tasks : status[t] \in {PENDING, CLOSED, ERROR} => page[t] # "open"

\* the positions of a callback that is not suspended on a driver call
SegmentPcs == {"idle", "sync", "next", "main", "force1b", "force2b", "health"}

\* C17: the tick and the event pass are never in progress together: while
\* one of them is suspended on a driver call the other is not in progress.
C17_TickAndPassExclusive ==
  /\ loc["tick"].pc \notin SegmentPcs => loc["ev"].pc = "idle"
  /\ loc["ev"].pc \notin SegmentPcs => loc["tick"].pc = "idle"

\* C18: at most one event-processing pass is dispatching handlers at any
\* time, and it holds the flag for as long as it does; a trigger raised while
\* a handler has not returned starts no second pass.
C18_OnePassAtATime ==
  /\ loc["ev"].depth <= 1
  /\ loc["ev"].pc # "idle" => isProcessingEvents /\ loc["ev"].depth = 1

\* a handler is suspended on a driver call and an event triggered meanwhile
\* waits in the pending set
C18_Witness ==
  /\ loc["ev"].pc \notin SegmentPcs
  /\ isProcessingEvents
  /\ pendingEvents # <<>>

\* the event e waits in the pending set or, behind the event that is being
\* handled, in the batch of the pass
Queued(e) ==
  \/ e \in Range(pendingEvents)
  \/ evBatch # <<>> /\ e \in Range(Tail(evBatch))

C20_SoftResetOnHourChange ==
  [][(TickStart /\ ~RESET_AT_HOUR /\ checkCycleReset) => cycle' = cycle + 1]_vars

\* C21: a successful initialization resets the breaker: when it is recorded
\* consecutive429Errors is 0 and the admission pause is not active.
C21_SuccessResetsBreaker ==
  [][(\E t \in TaskIds, k \in 1..MaxInitCalls : InitRunOk(t, k))
       => (consecutive429Errors' = 0 /\ ~PauseActive')]_vars

\* the tasks an admission step promotes
Promoted == {t \in tasks : status[t] = PENDING /\ status'[t] = INITIALIZING}

\* the slots an admission pass has in the current state
Slots ==
  Min3(PAGE_OPEN_CONCURRENCY - Cardinality({t \in tasks : status[t] = INITIALIZING}),
       MAX_OPEN_PAGES
         - Cardinality({t \in tasks :
                          \/ status[t] = INITIALIZING
                          \/ status[t] \in {MINING, COMPLETED, WAITING_CLOSE} /\ page[t] = "open"}),
       Cardinality({t \in tasks : status[t] = PENDING}))

C23_PromotesInIdOrder ==
  [][tryStartNewTaskAfterClose
       => /\ \A t \in Promoted, u \in tasks :
               (u < t /\ status[u] = PENDING) => u \in Promoted
          /\ \A t \in tasks \ Promoted : status'[t] = status[t]
          /\ Promoted # {}
               => Cardinality({t \in tasks : status'[t] = INITIALIZING})
                    <= PAGE_OPEN_CONCURRENCY]_vars

\* an admission pass has promoted a task and left a Pending task with a
\* larger id behind
C23_Witness ==
  \E t, u \in tasks :
    /\ t < u
    /\ status[t] = INITIALIZING /\ page[t] = "none"
    /\ \E k \in 1..MaxInitCalls : inits[t][k] = "run"
    /\ status[u] = PENDING
    /\ loc["ev"].pc = "idle"

\* the initializeTask calls that have not returned
InFlight == {<<t, k>> \in TaskIds \X (1..MaxInitCalls) : inits[t][k] \in {"run", "launch"}}

\* C24: at most PAGE_OPEN_CONCURRENCY initializeTask calls are in flight.
C24_InitCallsWithinConcurrency ==
  Cardinality(InFlight) <= PAGE_OPEN_CONCURRENCY

C27_StuckInitializingBecomesError ==
  [][(/\ TickDetect
      /\ status[loc["tick"].cur] = INITIALIZING
      /\ detectTaskStatus(loc["tick"].cur) = INITIALIZING)
       => LET t == loc["tick"].cur
          IN IF /\ startSessionClickCount[t] > 5
                /\ lastStartSessionClickTime[t] # NoTime
                /\ now - lastStartSessionClickTime[t] > 30000
             THEN status'[t] = ERROR /\ failed' = failed + 1
             ELSE status'[t] = INITIALIZING /\ failed' = failed]_vars

\* a task has just been found stuck: it is Error after six clicks, counted
\* as failed, and the tick has not reset it yet
C27_Witness ==
  \E t \in tasks : /\ status[t] = ERROR
                    /\ startSessionClickCount[t] > 5
                    /\ now - lastStartSessionClickTime[t] > 30000
                    /\ page[t] = "open"
                    /\ failed = 1

CleanupPcs == {"main", "force1", "force1b", "force2", "force2b"}

C30_HealthCheckRuns ==
  [][(TickHealth /\ lastHealthCheckTime = <<>>) => lastHealthCheckTime' = <<now>>]_vars

\* C31: outside a hard reset, a task leaves Completed or WaitingClose only
\* for Closed, without a page, and totalCompleted grows by exactly 1 in that
\* step.
C31_CompletedClosedAndCounted ==
  [][\A t \in tasks :
       (/\ status[t] \in {COMPLETED, WAITING_CLOSE}
        /\ status'[t] \notin {COMPLETED, WAITING_CLOSE}
        /\ ~(TickStart \/ HardResetClose))
         => /\ status'[t] = CLOSED
            /\ page'[t] = "none"
            /\ totalCompleted' = totalCompleted + 1]_vars

\* the enforcement of the mining ceiling next to the soft reset, with
\* RESET_AT_HOUR off: two tasks, pages that may start mining by themselves,
\* stop clicks that succeed or fail, resetCycle called at will
NextEnforceSoft == NextSoft \/ Stops

SpecEnforceSoft == InitWith(ConfigSoft, NumTasks - 1) /\ [][NextEnforceSoft]_vars

\* a step of the loop over the excess tasks in process p
EnforceStep(p) ==
  \/ \E clicked \in BOOLEAN : EnforceStopClick(p, clicked)
  \/ \E stopped \in BOOLEAN : EnforceStopped(p, stopped)
  \/ EnforceClose(p)

C36_MiningHasMiningCycle ==
  [][\A t \in tasks :
       status'[t] = MINING
         => /\ miningCycle'[t] # <<>>
            /\ status[t] # MINING => miningCycle'[t] = <<cycle'>>]_vars

\* crashes under the small configuration with two tasks: a page that is
\* reloaded may show the start control or a session that is mining
NextReload == Core \/ Crashes \/ TickReload("mining")

SpecReload == InitWith(ConfigSmall, NumTasks - 1) /\ [][NextReload]_vars

\* C37: in every state at most MAX_ACTIVE_MINING tasks are Mining with an
\* open page.
C37_ActiveMiningWithinCeiling == getActiveMiningCount <= MAX_ACTIVE_MINING

\* the wallet step under the small configuration: one task whose page may
\* go back to the wallet step, where tryClickStartSession finds it stuck
NextWallet ==
  \/ Core
  \/ \E t \in TaskIds : PageNavigates(t, "wallet")
  \/ \E p \in Procs : ClickStuck(p)

SpecWallet == InitWith(ConfigSmall, NumTasks - 2) /\ [][NextWallet]_vars

\* the initializeTask calls for task t that have not returned
InFlightOf(t) == Cardinality({k \in 1..MaxInitCalls : inits[t][k] # "idle"})

\* C38: for every task at most one initializeTask call is in flight.
C38_OneInitCallPerTask == \A t \in tasks : InFlightOf(t) <= 1

\* C39: while isRunning is false no task goes from Pending to Initializing
\* and no initializeTask call begins.
C39_NoAdmissionAfterStop ==
  [][~isRunning =>
       \A t \in tasks :
         /\ ~(status[t] = PENDING /\ status'[t] = INITIALIZING)
         /\ \A k \in 1..MaxInitCalls : inits[t][k] = "idle" => inits'[t][k] = "idle"]_vars

\* a configuration that lets as many pages be opened side by side as may be
\* open at all
ConfigEager ==
  [MAX_ACTIVE_MINING |-> 1, MAX_OPEN_PAGES |-> 2, PAGE_OPEN_CONCURRENCY |-> 2,
   RESET_AT_HOUR |-> TRUE]

\* the eager configuration: one task registered before start(), the others
\* at any moment.  The interval timer keeps calling schedule(), the calls
\* awaited by the tick and by the event pass return, and every driver returns
NextEager == Core \/ (\E id \in TaskIds : addTask(id))

TickPart ==
  \/ TickStart
  \/ TickMain
  \/ TickDetect
  \/ TickHealth
  \/ ClickEval("tick", "mining")
  \/ ClickWait("tick")
  \/ EnforceProbe("tick")

SpecEager ==
  /\ InitWith(ConfigEager, 1)
  /\ [][NextEager]_vars
  /\ SF_vars(TickPart)
  /\ SF_vars(EvStep)
  /\ \A t \in TaskIds, k \in 1..MaxInitCalls : WF_vars(InitRunOk(t, k))

\* the scheduler is running and not paused, the Mining tasks are below the
\* ceiling, and t is Initializing with a page that shows the start control
AwaitsClick(t) ==
  /\ isRunning
  /\ ~shouldPauseNewTasks
  /\ getActiveMiningCount < MAX_ACTIVE_MINING
  /\ t \in tasks
  /\ status[t] = INITIALIZING
  /\ page[t] = "open"
  /\ view[t] = "start"

\* C40: a task that awaits the click of its start control is eventually
\* clicked, unless it stops awaiting it.
C40_StartControlEventuallyClicked ==
  \A t \in TaskIds :
    AwaitsClick(t) ~> (~AwaitsClick(t) \/ startSessionClickCount[t] > 0)

\* the global limiter alone: three navigations that are resolved or
\* rejected, with or without 429, a limiter built with the default interval
\* or with a long one, the wall clock
MinIntervals == {DefaultMinInterval, 4 * DefaultMinInterval}

NextLimiter ==
  \/ Navigate
  \/ SlotTimer
  \/ NavigationSees429
  \/ \E result \in {"ok", "429", "error"} : OpSettles(result)
  \/ Advance

InitLimiter ==
  /\ InitScheduler(ConfigSmall, 0)
  /\ \E m \in MinIntervals : InitLimiters(m)

SpecLimiter == InitLimiter /\ [][NextLimiter]_vars

\* the requests of two pages of runOne: solutions that are submitted through
\* the global limiter and answered with status 200, challenge requests, the
\* wall clock
NextBlocking ==
  \/ SlotTimer
  \/ OpSettles("ok")
  \/ \E p \in Pages :
       \/ SolutionRoute(p)
       \/ SolutionResponse(p)
       \/ ChallengeRoute(p)
       \/ ChallengeUnblocked(p)
       \/ ChallengeContinue(p)
  \/ Advance

SpecBlocking == InitWith(ConfigSmall, 0) /\ [][NextBlocking]_vars

\* C33: a challenge request that waits because a solution is being submitted
\* leaves its waiting loop only when no solution request of any page is in
\* flight, or when its maximum wait has passed.
C33_ChallengeWaitsForSolutions ==
  [][\A p \in Pages :
       challenge[p].pc = "blocked" /\ challenge'[p].pc # "blocked"
         => \/ \A q \in Pages : solution[q] = "none"
            \/ now - challenge[p].startWait >= maxWait]_vars

Settled(o) == settled[o] \in {"resolved", "rejected"}

\* C34: the operations passed to execute run one at a time in the order of
\* their submission: activeRequests is 0 or 1, and 1 exactly while an operation
\* runs; the operations started so far are the first ones submitted, in that
\* order, and all but the last of them have settled; the callback of the first
\* link of the chain has always begun, so that a rejected operation leaves the
\* one behind it waiting for its slot or running.
C34_OneAtATimeInOrder ==
  /\ globalRateLimiter.activeRequests \in {0, 1}
  /\ globalRateLimiter.activeRequests = 1 <=> (queue # <<>> /\ Head(queue).pc = "op")
  /\ \A i \in 1..Len(started) :
       /\ started[i] = i
       /\ settled[i] # "none"
       /\ i < Len(started) => Settled(i)
  /\ \A o \in Ops : Settled(o) => \E i \in 1..Len(started) : started[i] = o
  /\ queue # <<>> => Head(queue).pc \in {"timer", "op"}
  /\ \A i \in 2..Len(queue) : queue[i].pc = "then"

\* an operation was rejected, and the one submitted after it has run and
\* resolved
C34_Witness ==
  \E o \in Ops :
    /\ o + 1 \in Ops
    /\ settled[o] = "rejected"
    /\ settled[o + 1] = "resolved"
    /\ globalRateLimiter.activeRequests = 0

\* C35: the interval of the global limiter starts at the configured base; each
\* record429Error call below the cap makes it strictly larger; it stays
\* between the base and the cap; a success more than the restore window after
\* the last 429 brings it back to the base.
C35_IntervalAdapts ==
  /\ globalRateLimiter.adaptiveInterval = globalRateLimiter.minInterval
  /\ [][/\ globalRateLimiter'.minInterval <= globalRateLimiter'.adaptiveInterval
        /\ globalRateLimiter'.adaptiveInterval <= IntervalCap
        /\ (/\ globalRateLimiter'.consecutive429Errors
                 = globalRateLimiter.consecutive429Errors + 1
            /\ globalRateLimiter.adaptiveInterval < IntervalCap)
             => globalRateLimiter'.adaptiveInterval > globalRateLimiter.adaptiveInterval
        /\ (/\ \E o \in Ops : settled[o] = "pending" /\ settled'[o] = "resolved"
            /\ globalRateLimiter.last429ErrorTime # <<>>
            /\ now - globalRateLimiter.last429ErrorTime[1] > RestoreWindow)
             => globalRateLimiter'.adaptiveInterval = globalRateLimiter.minInterval]_vars

====
